---- MODULE Spec2Model ----
(***************************************************************************)
(* Comment analysis pipeline of lently-backend: the job/progress tracker   *)
(* (analysis/progress.py), the background pipeline coordinator             *)
(* (analysis/background_service.py), the synchronous coordinator           *)
(* (analysis/service.py) and the progress stream and cancel endpoints      *)
(* (analysis/router.py).                                                   *)
(*                                                                         *)
(* The program runs on one asyncio event loop, so the code between two     *)
(* awaits that really suspend is one atomic action.  The awaits that       *)
(* suspend are asyncio.sleep, youtube.fetch_comments and                   *)
(* gemini.generate_json; _store_analysis has no await inside and runs      *)
(* within the action that reaches it.                                      *)
(***************************************************************************)
EXTENDS Integers, Sequences, FiniteSets, TLC

\* ---------------------------------------------------------------- constants
BATCH_SIZE == 50
MIN_COMMENTS == 5
QUEUE_MAXSIZE == 50
PROGRESS_CAP == 97
MAX_AGE_MINUTES == 30

\* ------------------------------------------------------------------- bounds
\* Largest number of comments a fetch returns, and a count that gives three
\* batches of which the last is partial.
MaxComments == 151
PartialThird == 120
\* Cancel requests sent for the job, in the job-level specification.
MaxCancels == 2
\* Cancel requests of the burst, and after it, in the fan-out specification.
BurstCancels == 47
MaxCancelsQueue == 2
\* Jobs created in the progress manager, and the minutes its clock runs for, in
\* steps of TickMinutes.
MaxJobs == 3
MaxTime == 45
TickMinutes == 15

NONE == "None"

\* ------------------------------------------------------------ AnalysisStep
QUEUED == "queued"
CONNECTING == "connecting"
FETCHING_VIDEO == "fetching_video"
FETCHING_COMMENTS == "fetching_comments"
ANALYZING_SENTIMENT == "analyzing_sentiment"
CLASSIFYING == "classifying"
EXTRACTING_INSIGHTS == "extracting_insights"
GENERATING_SUMMARY == "generating_summary"
SAVING == "saving"
COMPLETED == "completed"
FAILED == "failed"

\* list(AnalysisStep): the members in declaration order.
AnalysisStep ==
  << QUEUED, CONNECTING, FETCHING_VIDEO, FETCHING_COMMENTS, ANALYZING_SENTIMENT,
     CLASSIFYING, EXTRACTING_INSIGHTS, GENERATING_SUMMARY, SAVING, COMPLETED, FAILED >>

Steps == { AnalysisStep[k] : k \in DOMAIN AnalysisStep }

\* list(AnalysisStep).index(step), from 1.
StepIndex(step) == CHOOSE k \in DOMAIN AnalysisStep : AnalysisStep[k] = step

TerminalSteps == { COMPLETED, FAILED }

\* STEP_WEIGHTS: FAILED has no entry.
STEP_WEIGHTS ==
  [ s \in Steps \ {FAILED} |->
      CASE s = QUEUED -> 0
        [] s = CONNECTING -> 2
        [] s = FETCHING_VIDEO -> 5
        [] s = FETCHING_COMMENTS -> 15
        [] s = ANALYZING_SENTIMENT -> 25
        [] s = CLASSIFYING -> 20
        [] s = EXTRACTING_INSIGHTS -> 15
        [] s = GENERATING_SUMMARY -> 10
        [] s = SAVING -> 5
        [] s = COMPLETED -> 3 ]

Min(a, b) == IF a <= b THEN a ELSE b

RECURSIVE SumWeights(_)
\* Sum of the weights of the steps at list positions 1..k.
SumWeights(k) ==
  IF k = 0 THEN 0
  ELSE (IF AnalysisStep[k] \in DOMAIN STEP_WEIGHTS THEN STEP_WEIGHTS[AnalysisStep[k]] ELSE 0)
       + SumWeights(k - 1)

\* A calculate_progress that counts the weight of the step itself as well.
CalculateProgressInclusive(step, progress) ==
  IF step = FAILED THEN progress
  ELSE IF step = COMPLETED THEN 100
  ELSE Min(SumWeights(StepIndex(step)), PROGRESS_CAP)

\* A calculate_progress that reports no progress for a failed job.
CalculateProgressResetOnFailure(step, progress) ==
  IF step = FAILED THEN 0
  ELSE IF step = COMPLETED THEN 100
  ELSE Min(SumWeights(StepIndex(step) - 1), PROGRESS_CAP)

\* AnalysisJob.calculate_progress, for a job at `step` whose progress field is `progress`.
CalculateProgress(step, progress) ==
  IF step = FAILED THEN progress
  ELSE IF step = COMPLETED THEN 100
  ELSE Min(SumWeights(StepIndex(step) - 1), PROGRESS_CAP)

\* --------------------------------------------------------------- variables
VARIABLES
  job,          \* the AnalysisJob's fields (one job, created by start_analysis)
  subscribers,  \* job._subscribers: the subscribed queues, in subscription order
  queues,       \* the content of each stream's asyncio.Queue
  updates,      \* history: number of update_step calls made so far
  entered,      \* history: the steps update_step was called with
  regressed,    \* history: some update_step call lowered job.progress
  backward,     \* history: some update_step call moved job.step to an earlier step
  run,          \* the one pipeline call: its arguments, locals and position
  db,           \* the persistence store, as far as the pipeline writes it
  streams,      \* each progress stream's event_generator
  cancels,      \* history: number of cancel requests handled
  cancel_mark,  \* history: LLM calls issued when a running job was first cancelled
  jobs,         \* ProgressManager._jobs: analysis id -> job (the fields the manager reads)
  user_jobs,    \* ProgressManager._user_jobs: user id -> list of analysis ids
  now,          \* datetime.utcnow(), in minutes
  created,      \* history: number of create_job calls made so far
  called,       \* history: the last ProgressManager or AnalysisJob call, arguments, result
  redis,        \* the Redis keyspace behind RedisClient: key -> (serialized value, ttl)
  cache,        \* the CacheService: its stats and the get_or_set call in flight
  comment,      \* a comment_data dict handed to _calculate_engagement_score, and the score
  gen,          \* one GeminiClient.generate call: its loop variable, position and outcome
  fetch,        \* the selection made by the last fetch_comments call, with its inputs
  ask           \* the last call of an AskAIService aggregation, with its input

managerVars == << jobs, user_jobs, now, created, called >>

pipelineVars == << job, subscribers, queues, updates, entered, regressed, backward, run, db,
                   streams, cancels, cancel_mark >>

serviceVars == << redis, cache, comment, gen, fetch, ask >>

vars == << job, subscribers, queues, updates, entered, regressed, backward, run, db, streams,
           cancels, cancel_mark, jobs, user_jobs, now, created, called, redis, cache, comment,
           gen, fetch, ask >>

\* The progress streams opened for the job: two event generators.
StreamIds == 1 .. 2

\* Optional[T] for structured values: None is <<>>, a value x is <<x>>.
None == << >>
Some(x) == << x >>

\* ------------------------------------------------------------- AnalysisJob
\* AnalysisJob.__init__ (the fields a ProgressUpdate carries).
NewJob ==
  [ step |-> QUEUED, status |-> "processing", progress |-> 0, error |-> NONE,
    comments_fetched |-> 0, total_comments |-> 0,
    video_id |-> NONE, video_title |-> NONE, video_thumbnail |-> NONE ]

\* A call's keyword arguments: a function from the names supplied to their values.
NoPatch == [ f \in {} |-> NONE ]

\* An assignment of every keyword argument, supplied or not.
PatchedAlways(patch, field, old) ==
  IF field \in DOMAIN patch THEN patch[field]
  ELSE IF field \in { "comments_fetched", "total_comments" } THEN 0 ELSE NONE

\* `if x is not None: self.x = x`
Patched(patch, field, old) == IF field \in DOMAIN patch THEN patch[field] ELSE old

\* AnalysisJob.get_progress: the snapshot is the job's fields at the time of the call.
GetProgress(j) == j

\* A put_nowait on a queue created without maxsize: it never raises QueueFull.
PutNowaitUnbounded(q, update) == Append(q, update)

\* A put_nowait that already refuses the update when one slot is left.
PutNowaitOneShort(q, update) ==
  IF Len(q) >= QUEUE_MAXSIZE - 1 THEN q ELSE Append(q, update)

\* queue.put_nowait(update) with asyncio.QueueFull swallowed.
PutNowait(q, update) ==
  IF Len(q) >= QUEUE_MAXSIZE THEN q ELSE Append(q, update)

\* An update_step that forgets `self.step = step`.
UpdateJobKeepingStep(j, step, patch) ==
  [ j EXCEPT !.status = IF step = COMPLETED THEN "completed"
                        ELSE IF step = FAILED \/ "error" \in DOMAIN patch THEN "failed"
                        ELSE @,
             !.progress = CalculateProgress(step, @) ]

\* An update_step whose status follows the step alone: `error` marks nothing.
UpdateJobStatusByStep(j, step, patch) ==
  [ step |-> step,
    status |-> IF step = COMPLETED THEN "completed" ELSE "processing",
    progress |-> CalculateProgress(step, j.progress),
    error |-> Patched(patch, "error", j.error),
    comments_fetched |-> Patched(patch, "comments_fetched", j.comments_fetched),
    total_comments |-> Patched(patch, "total_comments", j.total_comments),
    video_id |-> Patched(patch, "video_id", j.video_id),
    video_title |-> Patched(patch, "video_title", j.video_title),
    video_thumbnail |-> Patched(patch, "video_thumbnail", j.video_thumbnail) ]

\* The fields update_step writes, before subscribers are notified.
UpdateJob(j, step, patch) ==
  LET status1 == IF "error" \in DOMAIN patch THEN "failed" ELSE j.status
      status2 == IF step = COMPLETED THEN "completed"
                 ELSE IF step = FAILED THEN "failed"
                 ELSE status1
  IN [ step |-> step,
       status |-> status2,
       progress |-> CalculateProgress(step, j.progress),
       error |-> Patched(patch, "error", j.error),
       comments_fetched |-> Patched(patch, "comments_fetched", j.comments_fetched),
       total_comments |-> Patched(patch, "total_comments", j.total_comments),
       video_id |-> Patched(patch, "video_id", j.video_id),
       video_title |-> Patched(patch, "video_title", j.video_title),
       video_thumbnail |-> Patched(patch, "video_thumbnail", j.video_thumbnail) ]

\* The tracker as one value, so that an action can make several calls in a row.
Tracker ==
  [ job |-> job, subscribers |-> subscribers, queues |-> queues,
    updates |-> updates, entered |-> entered, regressed |-> regressed,
    backward |-> backward ]

\* An update_step that takes the snapshot before it changes the job.
UpdateStepStaleSnapshot(w, step, patch) ==
  LET j == UpdateJob(w.job, step, patch)
      update == GetProgress(w.job)
      subscribed == { w.subscribers[k] : k \in DOMAIN w.subscribers }
  IN [ w EXCEPT
         !.job = j,
         !.queues = [ c \in DOMAIN w.queues |->
                        IF c \in subscribed THEN PutNowait(w.queues[c], update)
                        ELSE w.queues[c] ],
         !.updates = @ + 1,
         !.entered = @ \cup {step},
         !.regressed = @ \/ j.progress < w.job.progress,
         !.backward = @ \/ (step # FAILED /\ StepIndex(step) < StepIndex(w.job.step)) ]

\* AnalysisJob.update_step(step, **patch) on tracker w.
UpdateStep(w, step, patch) ==
  LET j == UpdateJob(w.job, step, patch)
      update == GetProgress(j)
      subscribed == { w.subscribers[k] : k \in DOMAIN w.subscribers }
  IN [ w EXCEPT
         !.job = j,
         !.queues = [ c \in DOMAIN w.queues |->
                        IF c \in subscribed THEN PutNowait(w.queues[c], update)
                        ELSE w.queues[c] ],
         !.updates = @ + 1,
         !.entered = @ \cup {step},
         !.regressed = @ \/ j.progress < w.job.progress,
         !.backward = @ \/ (step # FAILED /\ StepIndex(step) < StepIndex(w.job.step)) ]

\* AnalysisJob.is_cancelled
IsCancelled(j) == j.status = "failed" /\ j.step = FAILED

\* ------------------------------------------------------------ collaborators
\* What an awaited fetch_comments call can do: return, or raise one of its typed
\* errors, or raise anything else.
FetchOutcomes ==
  { "ok", "VideoNotFoundError", "CommentsDisabledError", "QuotaExceededError",
    "InvalidVideoIdError", "RuntimeError" }

\* What an awaited gemini.generate_json call can do.
LLMOutcomes == { "ok", "GeminiError", "RuntimeError" }

\* What an awaited sentiment call can do besides: "ok_empty" is a payload that
\* carries a summary and no per-item result, result.get("comments", []) being empty.
SentimentOutcomes == LLMOutcomes \cup { "ok_empty" }

\* What the Firestore writes of _store_analysis can do.
StoreOutcomes == { "ok", "error" }

YouTubeErrors ==
  { "VideoNotFoundError", "CommentsDisabledError", "QuotaExceededError", "InvalidVideoIdError" }

\* isinstance(e, cls) for an exception of class c: every class here derives from Exception.
IsInstance(c, cls) ==
  \/ c = cls
  \/ cls = "Exception"
  \/ cls = "YouTubeError" /\ c \in YouTubeErrors

\* str(e) of the exception a collaborator raises.
Message(c) ==
  CASE c = "VideoNotFoundError" -> "Video not found"
    [] c = "CommentsDisabledError" -> "Comments are disabled for this video"
    [] c = "QuotaExceededError" -> "YouTube API quota exceeded"
    [] c = "InvalidVideoIdError" -> "Cannot extract video ID"
    [] c = "GeminiError" -> "Failed after 3 attempts"
    [] OTHER -> "unexpected error"

VIDEO_ID == "vid"

\* ------------------------------------------------------- AnalysisResponse
NOT_ENOUGH_COMMENTS == "Not enough comments to analyze (minimum 5 required)"

\* _create_failed_response, and the FAILED response of AnalysisService.analyze's handler.
CreateFailedResponse(error) ==
  [ status |-> "failed", error |-> error, video_id |-> "unknown", comments_analyzed |-> 0,
    sentiment |-> None, classification |-> None, insights |-> None,
    executive_summary |-> None ]

\* The FAILED response built when fewer than 5 comments were fetched.
NotEnoughResponse ==
  [ status |-> "failed", error |-> NOT_ENOUGH_COMMENTS, video_id |-> VIDEO_ID,
    comments_analyzed |-> 0,
    sentiment |-> None, classification |-> None, insights |-> None,
    executive_summary |-> None ]

\* A threshold test that lets four comments through.
NotEnoughCommentsBelowFour(n) == n < MIN_COMMENTS - 1

\* `if len(comments) < 5`
NotEnoughComments(n) == n < MIN_COMMENTS

\* ------------------------------------------------------------------ batches
\* A slice that runs one comment into the next batch.
BatchOverlapping(i, n) == [ k \in 1 .. Min(BATCH_SIZE + 1, n - i) |-> i + k ]

\* comments[i:i + BATCH_SIZE] of n ranked comments, as comment ids 1..n (i from 0).
Batch(i, n) == [ k \in 1 .. Min(BATCH_SIZE, n - i) |-> i + k ]

\* `if i + BATCH_SIZE >= len(comments)`: this is the last batch.
IsLastBatch(i, n) == i + BATCH_SIZE >= n

\* ------------------------------------------------------- sentiment summaries
\* The values of CommentSentiment.sentiment, in the order _analyze_sentiment lists them.
SENTIMENTS == << "positive", "negative", "neutral", "mixed" >>

\* What the LLM answers for a comment: the sentiments it assigns repeat with the
\* comment's rank, in one of these cycles.
Labellings ==
  { << "positive" >>,
    << "positive", "negative", "neutral" >>,
    << "positive", "negative", "neutral", "mixed" >> }

\* cs["sentiment"] for the comment with id `id` under the labelling `labels`.
Label(labels, id) == labels[((id - 1) % Len(labels)) + 1]

\* sum(1 for s in all_comment_sentiments if s.sentiment == sentiment)
CountOf(results, labels, sentiment) ==
  Cardinality({ k \in DOMAIN results : Label(labels, results[k]) = sentiment })

\* round(num / den * 100, 1), as a number of tenths of a percent (33.3 is 333).
\* A tie goes to the even tenth; no count used here falls on a tie.
Round1(num, den) ==
  LET q == (1000 * num) \div den
      rem == (1000 * num) % den
  IN IF 2 * rem > den THEN q + 1
     ELSE IF 2 * rem < den THEN q
     ELSE IF q % 2 = 0 THEN q ELSE q + 1

\* A max that keeps the last of the greatest counts.
DominantLast(counts) ==
  LET k == CHOOSE k \in DOMAIN SENTIMENTS :
             /\ \A m \in DOMAIN SENTIMENTS : counts[m] <= counts[k]
             /\ \A m \in k + 1 .. Len(SENTIMENTS) : counts[m] < counts[k]
  IN SENTIMENTS[k]

\* max([("positive", pos), ...], key=lambda x: x[1])[0]: the first of the greatest.
Dominant(counts) ==
  LET k == CHOOSE k \in DOMAIN SENTIMENTS :
             /\ \A m \in DOMAIN SENTIMENTS : counts[m] <= counts[k]
             /\ \A m \in 1 .. k - 1 : counts[m] < counts[k]
  IN SENTIMENTS[k]

\* The SentimentSummary of the last batch's payload: the LLM's own percentages, which
\* add up to 100.  Percentages are in tenths of a percent.
PayloadSummary ==
  [ source |-> "payload", positive_percentage |-> 600, negative_percentage |-> 250,
    neutral_percentage |-> 100, mixed_percentage |-> 50, dominant_sentiment |-> "positive" ]

\* The SentimentSummary recomputed from the per-item results.
FallbackSummary(results, labels) ==
  LET total == Len(results)
      counts == [ k \in DOMAIN SENTIMENTS |-> CountOf(results, labels, SENTIMENTS[k]) ]
  IN [ source |-> "fallback",
       positive_percentage |-> Round1(counts[1], total),
       negative_percentage |-> Round1(counts[2], total),
       neutral_percentage |-> Round1(counts[3], total),
       mixed_percentage |-> Round1(counts[4], total),
       dominant_sentiment |-> Dominant(counts) ]

\* The SentimentSummary used when no per-item result was gathered.
DefaultSummary ==
  [ source |-> "default", positive_percentage |-> 0, negative_percentage |-> 0,
    neutral_percentage |-> 1000, mixed_percentage |-> 0, dominant_sentiment |-> "neutral" ]

\* ---------------------------------------------------- classification summaries
\* cc["primary_category"] for the comment with id `id`: the categories the LLM assigns
\* repeat with the comment's rank.
CATEGORIES == << "question", "appreciation", "suggestion" >>

CategoryOf(id) == CATEGORIES[((id - 1) % Len(CATEGORIES)) + 1]

\* category_counts: a count for every category met, none for the others.
CategoryCounts(results) ==
  [ c \in { CategoryOf(results[k]) : k \in DOMAIN results } |->
      Cardinality({ k \in DOMAIN results : CategoryOf(results[k]) = c }) ]

\* max(category_counts.items(), key=lambda x: x[1])[0] if category_counts else "other":
\* of the categories with the greatest count, the one met first.
TopCategory(results) ==
  LET counts == CategoryCounts(results)
      first(c) == CHOOSE k \in DOMAIN results :
                    /\ CategoryOf(results[k]) = c
                    /\ \A m \in 1 .. k - 1 : CategoryOf(results[m]) # c
  IN IF DOMAIN counts = {} THEN "other"
     ELSE CHOOSE c \in DOMAIN counts :
            \A d \in DOMAIN counts :
              counts[d] < counts[c] \/ (counts[d] = counts[c] /\ first(c) <= first(d))

\* A loop iteration whose GeminiError handler throws away the results gathered so far.
RunSentimentBatchForgetful(r, outcome) ==
  IF outcome = "ok"
  THEN [ r EXCEPT !.all_results = @ \o Batch(r.i, r.n),
                  !.summary = IF IsLastBatch(r.i, r.n) THEN Some(PayloadSummary) ELSE @ ]
  ELSE [ r EXCEPT !.all_results = << >> ]

\* One iteration of the loop of BackgroundAnalysisService._analyze_sentiment, the
\* awaited call returning (outcome "ok": one result per comment of the batch) or
\* raising GeminiError.
RunSentimentBatch(r, outcome) ==
  IF outcome \in { "ok", "ok_empty" }
  THEN [ r EXCEPT !.all_results = IF outcome = "ok" THEN @ \o Batch(r.i, r.n) ELSE @,
                  !.summary = IF IsLastBatch(r.i, r.n) THEN Some(PayloadSummary) ELSE @ ]
  ELSE r

\* An end of _analyze_sentiment whose default reports no neutral share.
RunSentimentResultZeroDefault(r) ==
  [ comments |-> r.all_results,
    summary |-> IF r.summary # None THEN r.summary[1]
                ELSE IF r.all_results # << >> THEN FallbackSummary(r.all_results, r.labels)
                ELSE [ DefaultSummary EXCEPT !.neutral_percentage = 0 ] ]

\* The end of BackgroundAnalysisService._analyze_sentiment: `if summary is None`.
RunSentimentResult(r) ==
  [ comments |-> r.all_results,
    summary |-> IF r.summary # None THEN r.summary[1]
                ELSE IF r.all_results # << >> THEN FallbackSummary(r.all_results, r.labels)
                ELSE DefaultSummary ]

\* One iteration of the loop of BackgroundAnalysisService._classify_comments.
RunClassifyBatch(r, outcome) ==
  IF outcome = "ok" THEN [ r EXCEPT !.all_results = @ \o Batch(r.i, r.n) ] ELSE r

\* The end of _classify_comments.
ClassifyResult(r) ==
  [ comments |-> r.all_results,
    summary |-> [ category_counts |-> CategoryCounts(r.all_results),
                  top_category |-> TopCategory(r.all_results) ] ]

\* _extract_insights: the payload's insights, or empty insights on GeminiError.
InsightsResult(outcome) == [ source |-> IF outcome = "ok" THEN "payload" ELSE "empty" ]

\* _generate_summary: the payload's summary, or the fixed text on GeminiError.
SummaryResult(outcome) == [ source |-> IF outcome = "ok" THEN "payload" ELSE "fallback" ]

\* A summary condition that looks at the flag alone.
SummaryEnabledByFlagOnly(r) == r.include_summary

\* `if include_summary and sentiment_result and classification_result`
SummaryEnabled(r) ==
  r.include_summary /\ r.sentiment_result # None /\ r.classification_result # None

\* ---------------------------------------------------------------- insights
INSIGHTS_SAMPLE == 75

\* A sample that is the whole comment list.
InsightsSampleAll(n) == [ k \in 1 .. n |-> k ]

\* `comments[:min(len(comments), 75)]` of n ranked comments, as comment ids.
InsightsSample(n) == [ k \in 1 .. Min(n, INSIGHTS_SAMPLE) |-> k ]

\* The call of gemini.generate_json is issued and the pipeline waits for it at `at`.
IssueLLM(r, at) ==
  [ r EXCEPT !.pc = at, !.llm_calls = @ + 1,
             !.summary_calls = IF at = "summary" THEN @ + 1 ELSE @,
             !.insights_calls = IF at = "insights" THEN @ + 1 ELSE @,
             !.sample = IF at = "insights" THEN InsightsSample(r.n) ELSE @,
             !.batches = IF at \in { "sentiment", "classify" }
                         THEN Append(@, Batch(r.i, r.n)) ELSE @,
             !.stages = IF @ # << >> /\ @[Len(@)] = at THEN @ ELSE Append(@, at) ]

\* A batched stage starts: its accumulators are reset.
StartBatches(r) ==
  [ r EXCEPT !.i = 0, !.all_results = << >>, !.summary = None, !.log = << >>,
             !.batches = << >> ]

\* ------------------------------------------------------------ stored comments
\* sentiment_map: comment id -> sentiment, from the per-item results of the stage;
\* empty when the stage did not run.
SentimentMap(sentiment_result, labels) ==
  IF sentiment_result = None THEN [ id \in {} |-> NONE ]
  ELSE LET items == sentiment_result[1].comments
       IN [ id \in { items[k] : k \in DOMAIN items } |-> Label(labels, id) ]

\* classification_map: comment id -> primary category.
ClassificationMap(classification_result) ==
  IF classification_result = None THEN [ id \in {} |-> NONE ]
  ELSE LET items == classification_result[1].comments
       IN [ id \in { items[k] : k \in DOMAIN items } |-> CategoryOf(id) ]

\* dict.get(key): the value, or None.
MapGet(map, key) == IF key \in DOMAIN map THEN map[key] ELSE NONE

\* A projection that keeps only the comments the sentiment stage labelled.
BuildStoredCommentsLabelledOnly(n, sentiment_result, classification_result, labels) ==
  LET sentiment_map == SentimentMap(sentiment_result, labels)
      classification_map == ClassificationMap(classification_result)
      all == [ id \in 1 .. n |->
               [ comment_id |-> id, sentiment |-> MapGet(sentiment_map, id),
                 category |-> MapGet(classification_map, id) ] ]
  IN SelectSeq(all, LAMBDA e : e.sentiment # NONE)

\* _build_stored_comments over the n fetched comments, in their order.
BuildStoredComments(n, sentiment_result, classification_result, labels) ==
  LET sentiment_map == SentimentMap(sentiment_result, labels)
      classification_map == ClassificationMap(classification_result)
  IN [ id \in 1 .. n |->
       [ comment_id |-> id, sentiment |-> MapGet(sentiment_map, id),
         category |-> MapGet(classification_map, id) ] ]

\* The COMPLETED response built from the pipeline's locals r.
CompletedResponse(r) ==
  [ status |-> "completed", error |-> NONE, video_id |-> VIDEO_ID,
    comments_analyzed |-> r.n,
    sentiment |-> r.sentiment_result, classification |-> r.classification_result,
    insights |-> r.insights_result, executive_summary |-> r.summary_result,
    stored_comments |-> BuildStoredComments(r.n, r.sentiment_result,
                                            r.classification_result, r.labels) ]

\* --------------------------------------------------------------- persistence
\* _store_analysis: the writes, or nothing when Firestore raises (logged, swallowed).
StoreAnalysis(d, outcome) ==
  IF outcome = "ok" THEN [ d EXCEPT !.stored = TRUE, !.usage = @ + 1 ] ELSE d

\* ------------------------------------------- BackgroundAnalysisService.run_analysis
\* A closing handler that names GeminiError only.
RunOuterExceptGeminiOnly == "GeminiError"

\* The class named by the handler that closes run_analysis: `except Exception as e`.
RunOuterExcept == "Exception"

\* A closing handler that returns the FAILED response and leaves the job as it is.
RunHandleJobUntouched(s, c) ==
  [ s EXCEPT !.r = [ @ EXCEPT !.pc = "returned", !.thrown = c,
                              !.response = Some(CreateFailedResponse(Message(c))) ] ]

\* An exception of class c leaves the try body of run_analysis; s = [w, r, d] is the
\* tracker, the pipeline's locals and the store at that moment.
RunHandle(s, c) ==
  IF IsInstance(c, RunOuterExcept)
  THEN [ s EXCEPT
           !.w = UpdateStep(@, FAILED, [ error |-> Message(c) ]),
           !.r = [ @ EXCEPT !.pc = "returned", !.thrown = c,
                            !.response = Some(CreateFailedResponse(Message(c))) ] ]
  ELSE [ s EXCEPT !.r = [ @ EXCEPT !.pc = "raised", !.thrown = c, !.exc = c ] ]

\* Typed handlers that record no error text on the job.
FetchJobErrorBlank(c) == ""

\* job.error and the response's error set by the typed handlers of the fetch.
FetchJobError(c) ==
  CASE c = "VideoNotFoundError" -> "Video not found: vid"
    [] c = "CommentsDisabledError" -> "Comments are disabled for this video"
    [] c = "QuotaExceededError" -> "YouTube API quota exceeded"
    [] c = "InvalidVideoIdError" -> Message(c)

FetchResponseError(c) ==
  CASE c = "VideoNotFoundError" -> Message(c)
    [] c = "CommentsDisabledError" -> "Comments are disabled"
    [] c = "QuotaExceededError" -> "API quota exceeded"
    [] c = "InvalidVideoIdError" -> Message(c)

\* An ending that reports COMPLETED before it reports SAVING.
RunFinishSavingLast(s, store) ==
  LET w1 == UpdateStep(s.w, COMPLETED, NoPatch)
      response == CompletedResponse(s.r)
      w2 == UpdateStep(w1, SAVING, NoPatch)
  IN [ w |-> w2,
       r |-> [ s.r EXCEPT !.pc = "returned", !.response = Some(response) ],
       d |-> StoreAnalysis(s.d, store) ]

\* Step 6 to the return: SAVING, the response, _store_analysis, COMPLETED.
RunFinish(s, store) ==
  LET w1 == UpdateStep(s.w, SAVING, NoPatch)
      response == CompletedResponse(s.r)
      w2 == UpdateStep(w1, COMPLETED, NoPatch)
  IN [ w |-> w2,
       r |-> [ s.r EXCEPT !.pc = "returned", !.response = Some(response) ],
       d |-> StoreAnalysis(s.d, store) ]

RECURSIVE RunStage(_, _, _)
\* run_analysis from the `if` of stage k (1 sentiment, 2 classification, 3 insights,
\* 4 summary) up to the next awaited call, or to the return.
RunStage(k, s, store) ==
  CASE k = 1 ->
         IF s.r.include_sentiment
         THEN LET w1 == UpdateStep(s.w, ANALYZING_SENTIMENT, NoPatch)
                  r1 == StartBatches(s.r)
              IN IF r1.n > 0
                 THEN [ s EXCEPT !.w = w1, !.r = IssueLLM(r1, "sentiment") ]
                 ELSE RunStage(2, [ s EXCEPT !.w = w1,
                        !.r = [ r1 EXCEPT !.sentiment_result = Some(RunSentimentResult(r1)) ] ],
                        store)
         ELSE RunStage(2, s, store)
    [] k = 2 ->
         IF s.r.include_classification
         THEN LET w1 == UpdateStep(s.w, CLASSIFYING, NoPatch)
                  r1 == StartBatches(s.r)
              IN IF r1.n > 0
                 THEN [ s EXCEPT !.w = w1, !.r = IssueLLM(r1, "classify") ]
                 ELSE RunStage(3, [ s EXCEPT !.w = w1,
                        !.r = [ r1 EXCEPT !.classification_result = Some(ClassifyResult(r1)) ] ],
                        store)
         ELSE RunStage(3, s, store)
    [] k = 3 ->
         IF s.r.include_insights
         THEN [ s EXCEPT !.w = UpdateStep(@, EXTRACTING_INSIGHTS, NoPatch),
                         !.r = IssueLLM(@, "insights") ]
         ELSE RunStage(4, s, store)
    [] OTHER ->
         IF SummaryEnabled(s.r)
         THEN [ s EXCEPT !.w = UpdateStep(@, GENERATING_SUMMARY, NoPatch),
                         !.r = IssueLLM(@, "summary") ]
         ELSE RunFinish(s, store)

\* The state an action of the pipeline starts from, and the one it leaves.
Now == [ w |-> Tracker, r |-> run, d |-> db ]

Apply(s) ==
  /\ job' = s.w.job
  /\ queues' = s.w.queues
  /\ updates' = s.w.updates
  /\ entered' = s.w.entered
  /\ regressed' = s.w.regressed
  /\ backward' = s.w.backward
  /\ run' = s.r
  /\ db' = s.d
  /\ UNCHANGED << subscribers, streams, cancels, cancel_mark >>
  /\ UNCHANGED << managerVars, serviceVars >>

Running(at) == run.service = "run_analysis" /\ run.pc = at

\* run_analysis up to `await asyncio.sleep(0.3)`.
RunStart ==
  /\ Running("start")
  /\ Apply([ Now EXCEPT !.w = UpdateStep(@, CONNECTING, NoPatch), !.r.pc = "sleep" ])

\* From the sleep to the awaited fetch_comments.
RunAfterSleep ==
  /\ Running("sleep")
  /\ Apply([ Now EXCEPT
       !.w = UpdateStep(UpdateStep(@, FETCHING_VIDEO, NoPatch), FETCHING_COMMENTS, NoPatch),
       !.r = [ @ EXCEPT !.pc = "fetch", !.fetch_calls = @ + 1 ] ])

\* fetch_comments returns or raises; on success up to the first LLM call, or the return.
RunFetchReturns ==
  /\ Running("fetch")
  /\ \E o \in FetchOutcomes, store \in StoreOutcomes :
       IF o \in YouTubeErrors
       THEN Apply([ Now EXCEPT
              !.w = UpdateStep(@, FAILED, [ error |-> FetchJobError(o) ]),
              !.r = [ @ EXCEPT !.pc = "returned", !.fetched = o,
                        !.response = Some(CreateFailedResponse(FetchResponseError(o))) ] ])
       ELSE IF o # "ok"
       THEN Apply(RunHandle([ Now EXCEPT !.r.fetched = o ], o))
       ELSE LET w1 == UpdateStep(Tracker, FETCHING_COMMENTS,
                        [ video_id |-> VIDEO_ID, video_title |-> "title",
                          video_thumbnail |-> "thumb", comments_fetched |-> run.n,
                          total_comments |-> run.n ])
            IN IF NotEnoughComments(run.n)
               THEN Apply([ Now EXCEPT
                      !.w = UpdateStep(w1, FAILED, [ error |-> "Not enough comments (minimum 5)" ]),
                      !.r = [ @ EXCEPT !.pc = "returned", !.fetched = o,
                                       !.response = Some(NotEnoughResponse) ] ])
               ELSE Apply(RunStage(1, [ Now EXCEPT !.w = w1, !.r.fetched = o ], store))

\* A sentiment batch's call returns or raises, in one of the ways `outcomes`: the rest
\* of the loop, and on from it.
RunSentimentReturnsWith(outcomes) ==
  /\ Running("sentiment")
  /\ \E o \in outcomes, store \in StoreOutcomes :
       IF o = "RuntimeError"
       THEN Apply(RunHandle(Now, o))
       ELSE LET r1 == [ RunSentimentBatch(run, o) EXCEPT !.log = Append(@, o) ]
            IN IF r1.i + BATCH_SIZE < r1.n
               THEN Apply([ Now EXCEPT !.r = IssueLLM([ r1 EXCEPT !.i = @ + BATCH_SIZE ], "sentiment") ])
               ELSE Apply(RunStage(2, [ Now EXCEPT !.r =
                      [ r1 EXCEPT !.sentiment_result = Some(RunSentimentResult(r1)),
                                  !.sentiment_log = r1.log,
                                  !.sentiment_batches = r1.batches ] ], store))

\* The same with payloads that carry a result for every comment of the batch.
RunSentimentReturns == RunSentimentReturnsWith(LLMOutcomes)

\* A classification batch's call returns or raises.
RunClassifyReturns ==
  /\ Running("classify")
  /\ \E o \in LLMOutcomes, store \in StoreOutcomes :
       IF o = "RuntimeError"
       THEN Apply(RunHandle(Now, o))
       ELSE LET r1 == [ RunClassifyBatch(run, o) EXCEPT !.log = Append(@, o) ]
            IN IF r1.i + BATCH_SIZE < r1.n
               THEN Apply([ Now EXCEPT !.r = IssueLLM([ r1 EXCEPT !.i = @ + BATCH_SIZE ], "classify") ])
               ELSE Apply(RunStage(3, [ Now EXCEPT !.r =
                      [ r1 EXCEPT !.classification_result = Some(ClassifyResult(r1)),
                                  !.classification_log = r1.log,
                                  !.classification_batches = r1.batches ] ], store))

\* The insights call returns or raises.
RunInsightsReturns ==
  /\ Running("insights")
  /\ \E o \in LLMOutcomes, store \in StoreOutcomes :
       IF o = "RuntimeError"
       THEN Apply(RunHandle(Now, o))
       ELSE Apply(RunStage(4, [ Now EXCEPT !.r.insights_result = Some(InsightsResult(o)),
                                           !.r.insights_log = o ], store))

\* The summary call returns or raises.
RunSummaryReturns ==
  /\ Running("summary")
  /\ \E o \in LLMOutcomes, store \in StoreOutcomes :
       IF o = "RuntimeError"
       THEN Apply(RunHandle(Now, o))
       ELSE Apply(RunFinish([ Now EXCEPT !.r.summary_result = Some(SummaryResult(o)) ], store))

\* ------------------------------------------------------ AnalysisService.analyze
\* The class named by the handler that closes analyze: `except Exception as e`.
AnalyzeOuterExcept == "Exception"

\* An exception of class c leaves the try body of analyze.
AnalyzeHandle(r, c) ==
  IF IsInstance(c, AnalyzeOuterExcept)
  THEN [ r EXCEPT !.pc = "returned", !.thrown = c,
                  !.response = Some(CreateFailedResponse(Message(c))) ]
  ELSE [ r EXCEPT !.pc = "raised", !.thrown = c, !.exc = c ]

\* One iteration of the loop of AnalysisService._analyze_sentiment; `summary` is
\* bound (here: not None) once the last batch's call has succeeded.
AnalyzeSentimentBatch(r, outcome) ==
  IF outcome \in { "ok", "ok_empty" }
  THEN [ r EXCEPT !.all_results = IF outcome = "ok" THEN @ \o Batch(r.i, r.n) ELSE @,
                  !.summary = IF IsLastBatch(r.i, r.n) THEN Some(PayloadSummary) ELSE @ ]
  ELSE r

\* The end of AnalysisService._analyze_sentiment:
\* `if not all_comment_sentiments ... elif 'summary' not in locals()`.
AnalyzeSentimentResult(r) ==
  [ comments |-> r.all_results,
    summary |-> IF r.all_results = << >> THEN DefaultSummary
                ELSE IF r.summary = None THEN FallbackSummary(r.all_results, r.labels)
                ELSE r.summary[1] ]

\* One iteration of the loop of AnalysisService._classify_comments.
AnalyzeClassifyBatch(r, outcome) ==
  IF outcome = "ok" THEN [ r EXCEPT !.all_results = @ \o Batch(r.i, r.n) ] ELSE r

\* The COMPLETED return of analyze.
AnalyzeFinish(r) ==
  [ r EXCEPT !.pc = "returned", !.response = Some(CompletedResponse(r)) ]

RECURSIVE AnalyzeStage(_, _)
\* analyze from the `if` of stage k up to the next awaited call, or to the return.
AnalyzeStage(k, r) ==
  CASE k = 1 ->
         IF r.include_sentiment
         THEN LET r1 == StartBatches(r)
              IN IF r1.n > 0 THEN IssueLLM(r1, "sentiment")
                 ELSE AnalyzeStage(2, [ r1 EXCEPT !.sentiment_result = Some(AnalyzeSentimentResult(r1)) ])
         ELSE AnalyzeStage(2, r)
    [] k = 2 ->
         IF r.include_classification
         THEN LET r1 == StartBatches(r)
              IN IF r1.n > 0 THEN IssueLLM(r1, "classify")
                 ELSE AnalyzeStage(3, [ r1 EXCEPT !.classification_result = Some(ClassifyResult(r1)) ])
         ELSE AnalyzeStage(3, r)
    [] k = 3 ->
         IF r.include_insights THEN IssueLLM(r, "insights") ELSE AnalyzeStage(4, r)
    [] OTHER ->
         IF SummaryEnabled(r) THEN IssueLLM(r, "summary") ELSE AnalyzeFinish(r)

Analyzing(at) == run.service = "analyze" /\ run.pc = at

ApplyAnalyze(r) ==
  /\ run' = r
  /\ UNCHANGED << job, subscribers, queues, updates, entered, regressed, backward, db, streams,
                  cancels, cancel_mark >>
  /\ UNCHANGED << managerVars, serviceVars >>

\* analyze up to the awaited fetch_comments.
AnalyzeStart ==
  /\ Analyzing("start")
  /\ ApplyAnalyze([ run EXCEPT !.pc = "fetch", !.fetch_calls = @ + 1 ])

\* fetch_comments returns or raises.
AnalyzeFetchReturns ==
  /\ Analyzing("fetch")
  /\ \E o \in FetchOutcomes :
       IF o # "ok"
       THEN ApplyAnalyze(AnalyzeHandle([ run EXCEPT !.fetched = o ], o))
       ELSE IF NotEnoughComments(run.n)
       THEN ApplyAnalyze([ run EXCEPT !.pc = "returned", !.fetched = o,
                                      !.response = Some(NotEnoughResponse) ])
       ELSE ApplyAnalyze(AnalyzeStage(1, [ run EXCEPT !.fetched = o ]))

\* A sentiment batch's call returns or raises.
AnalyzeSentimentReturnsWith(outcomes) ==
  /\ Analyzing("sentiment")
  /\ \E o \in outcomes :
       IF o = "RuntimeError"
       THEN ApplyAnalyze(AnalyzeHandle(run, o))
       ELSE LET r1 == [ AnalyzeSentimentBatch(run, o) EXCEPT !.log = Append(@, o) ]
            IN IF r1.i + BATCH_SIZE < r1.n
               THEN ApplyAnalyze(IssueLLM([ r1 EXCEPT !.i = @ + BATCH_SIZE ], "sentiment"))
               ELSE ApplyAnalyze(AnalyzeStage(2,
                      [ r1 EXCEPT !.sentiment_result = Some(AnalyzeSentimentResult(r1)),
                                  !.sentiment_log = r1.log,
                                  !.sentiment_batches = r1.batches ]))

AnalyzeSentimentReturns == AnalyzeSentimentReturnsWith(LLMOutcomes)

\* A classification batch's call returns or raises.
AnalyzeClassifyReturns ==
  /\ Analyzing("classify")
  /\ \E o \in LLMOutcomes :
       IF o = "RuntimeError"
       THEN ApplyAnalyze(AnalyzeHandle(run, o))
       ELSE LET r1 == [ AnalyzeClassifyBatch(run, o) EXCEPT !.log = Append(@, o) ]
            IN IF r1.i + BATCH_SIZE < r1.n
               THEN ApplyAnalyze(IssueLLM([ r1 EXCEPT !.i = @ + BATCH_SIZE ], "classify"))
               ELSE ApplyAnalyze(AnalyzeStage(3,
                      [ r1 EXCEPT !.classification_result = Some(ClassifyResult(r1)),
                                  !.classification_log = r1.log,
                                  !.classification_batches = r1.batches ]))

\* The insights call returns or raises.
AnalyzeInsightsReturns ==
  /\ Analyzing("insights")
  /\ \E o \in LLMOutcomes :
       IF o = "RuntimeError"
       THEN ApplyAnalyze(AnalyzeHandle(run, o))
       ELSE ApplyAnalyze(AnalyzeStage(4, [ run EXCEPT !.insights_result = Some(InsightsResult(o)),
                                                      !.insights_log = o ]))

\* The summary call returns or raises.
AnalyzeSummaryReturns ==
  /\ Analyzing("summary")
  /\ \E o \in LLMOutcomes :
       IF o = "RuntimeError"
       THEN ApplyAnalyze(AnalyzeHandle(run, o))
       ELSE ApplyAnalyze(AnalyzeFinish([ run EXCEPT !.summary_result = Some(SummaryResult(o)) ]))

\* ------------------------------------------------------ cancel_active_analysis
\* Requests about the job reach the server after start_analysis has returned the
\* analysis id, and the task it created has then run to its first await.
JobVisible == run.service = "run_analysis" /\ run.pc # "start"

PipelineReturned == run.pc \in { "returned", "raised" }

\* POST /{analysis_id}/cancel by the job's owner, the job being in the progress
\* manager: update_step(FAILED) and the Firestore clean-up (its failure is swallowed).
CancelActiveAnalysis(limit) ==
  /\ JobVisible
  /\ cancels < limit
  /\ \E cleanup \in StoreOutcomes :
       LET w == UpdateStep(Tracker, FAILED, [ error |-> "Analysis cancelled by user" ])
       IN /\ job' = w.job
          /\ queues' = w.queues
          /\ updates' = w.updates
          /\ entered' = w.entered
          /\ regressed' = w.regressed
          /\ backward' = w.backward
          /\ db' = IF cleanup = "ok" THEN [ db EXCEPT !.stored = FALSE ] ELSE db
  /\ cancels' = cancels + 1
  /\ cancel_mark' = IF cancel_mark = -1 /\ ~PipelineReturned THEN run.llm_calls ELSE cancel_mark
  /\ UNCHANGED << subscribers, run, streams >>
  /\ UNCHANGED << managerVars, serviceVars >>

\* ---------------------------------------------------------- ProgressManager
\* The owners of jobs.
UserIds == { "u1", "u2" }

\* The analysis ids start_analysis hands out: str(uuid.uuid4()), never one twice.
JobIds == 1 .. MaxJobs

\* The retention windows cleanup_old_jobs is called with.
MaxAges == { TickMinutes, MAX_AGE_MINUTES }

\* ProgressManager.__init__
NoJobs == [ id \in {} |-> NewJob ]
NoUserJobs == [ u \in {} |-> << >> ]

\* AnalysisJob.__init__, with the fields the manager reads.
NewManagedJob(user_id, at) ==
  [ user_id |-> user_id, created_at |-> at,
    step |-> NewJob.step, status |-> NewJob.status, progress |-> NewJob.progress ]

\* The indices after ProgressManager.create_job(analysis_id, user_id, _).
CreateJobIndices(js, uj, analysis_id, user_id, at) ==
  [ jobs |-> [ id \in DOMAIN js \cup { analysis_id } |->
                 IF id = analysis_id THEN NewManagedJob(user_id, at) ELSE js[id] ],
    user_jobs |-> [ u \in DOMAIN uj \cup { user_id } |->
                      IF u = user_id
                      THEN Append(IF u \in DOMAIN uj THEN uj[u] ELSE << >>, analysis_id)
                      ELSE uj[u] ] ]

\* ProgressManager.get_user_jobs, as analysis ids.
GetUserJobs(js, uj, user_id) ==
  SelectSeq(IF user_id \in DOMAIN uj THEN uj[user_id] ELSE << >>,
            LAMBDA jid : jid \in DOMAIN js)

\* A lookup that returns the first active job of the list.
GetActiveJobFirst(js, uj, user_id) ==
  LET active == SelectSeq(GetUserJobs(js, uj, user_id),
                          LAMBDA jid : js[jid].status = "processing")
  IN IF active # << >> THEN Some(active[1]) ELSE None

\* ProgressManager.get_active_job_for_user: max(active, key=created_at) is the first
\* of the jobs with the greatest created_at.
GetActiveJobForUser(js, uj, user_id) ==
  LET active == SelectSeq(GetUserJobs(js, uj, user_id),
                          LAMBDA jid : js[jid].status = "processing")
      k == CHOOSE k \in DOMAIN active :
             /\ \A m \in DOMAIN active : js[active[m]].created_at <= js[active[k]].created_at
             /\ \A m \in 1 .. k - 1 : js[active[m]].created_at < js[active[k]].created_at
  IN IF active # << >> THEN Some(active[k]) ELSE None

\* A selection that takes every job older than the cutoff, whatever its status.
ToRemoveAnyStatus(js, cutoff) ==
  { id \in DOMAIN js : js[id].created_at < cutoff }

\* cleanup_old_jobs: the ids collected in to_remove.
ToRemove(js, cutoff) ==
  { id \in DOMAIN js :
      js[id].status \in { "completed", "failed" } /\ js[id].created_at < cutoff }

\* A removal that leaves the lists of the owners as they are.
UserJobsKept(js, uj, to_remove) == uj

\* cleanup_old_jobs: the owner lists after the removed jobs' ids are filtered out.
UserJobsWithout(js, uj, to_remove) ==
  [ u \in DOMAIN uj |->
      SelectSeq(uj[u], LAMBDA jid : ~(jid \in to_remove /\ js[jid].user_id = u)) ]

\* start_analysis: an analysis id is drawn and the job is created for its owner.
CreateJob ==
  /\ created < MaxJobs
  /\ \E user_id \in UserIds :
       LET analysis_id == created + 1
           ix == CreateJobIndices(jobs, user_jobs, analysis_id, user_id, now)
       IN /\ jobs' = ix.jobs
          /\ user_jobs' = ix.user_jobs
          /\ called' = [ op |-> "create_job", arg |-> analysis_id,
                         result |-> Some(ix.jobs[analysis_id]) ]
  /\ created' = created + 1
  /\ UNCHANGED now
  /\ UNCHANGED << pipelineVars, serviceVars >>

\* The pipeline of a job held by the manager reaches its last update_step.
JobUpdateStep ==
  /\ \E id \in DOMAIN jobs, step \in TerminalSteps :
       /\ jobs[id].status = "processing"
       /\ LET j == UpdateJob([ NewJob EXCEPT !.step = jobs[id].step,
                                             !.status = jobs[id].status,
                                             !.progress = jobs[id].progress ],
                             step, NoPatch)
          IN jobs' = [ jobs EXCEPT ![id] = [ @ EXCEPT !.step = j.step,
                                                       !.status = j.status,
                                                       !.progress = j.progress ] ]
       /\ called' = [ op |-> "update_step", arg |-> 0, result |-> None ]
  /\ UNCHANGED << user_jobs, now, created >>
  /\ UNCHANGED << pipelineVars, serviceVars >>

\* Time passes.
Tick ==
  /\ now + TickMinutes <= MaxTime
  /\ now' = now + TickMinutes
  /\ called' = [ op |-> "tick", arg |-> 0, result |-> None ]
  /\ UNCHANGED << jobs, user_jobs, created >>
  /\ UNCHANGED << pipelineVars, serviceVars >>

\* ProgressManager.cleanup_old_jobs(max_age_minutes)
CleanupOldJobs ==
  /\ \E max_age \in MaxAges :
       LET to_remove == ToRemove(jobs, now - max_age)
       IN /\ jobs' = [ id \in DOMAIN jobs \ to_remove |-> jobs[id] ]
          /\ user_jobs' = UserJobsWithout(jobs, user_jobs, to_remove)
          /\ called' = [ op |-> "cleanup_old_jobs", arg |-> max_age, result |-> None ]
  /\ UNCHANGED << now, created >>
  /\ UNCHANGED << pipelineVars, serviceVars >>

\* ProgressManager.get_active_job_for_user(user_id)
GetActiveJob ==
  /\ \E user_id \in UserIds :
       called' = [ op |-> "get_active_job_for_user", arg |-> user_id,
                   result |-> GetActiveJobForUser(jobs, user_jobs, user_id) ]
  /\ UNCHANGED << jobs, user_jobs, now, created >>
  /\ UNCHANGED << pipelineVars, serviceVars >>

\* Whether the process runs start_cleanup_loop: nothing creates a task for it, so
\* ProgressManager._cleanup_task stays None.
CleanupTaskStarted == FALSE

\* One turn of start_cleanup_loop: `await asyncio.sleep(300)`, then cleanup_old_jobs().
CleanupLoopTurn ==
  /\ CleanupTaskStarted
  /\ LET to_remove == ToRemove(jobs, now - MAX_AGE_MINUTES)
     IN /\ jobs' = [ id \in DOMAIN jobs \ to_remove |-> jobs[id] ]
        /\ user_jobs' = UserJobsWithout(jobs, user_jobs, to_remove)
        /\ called' = [ op |-> "cleanup_old_jobs", arg |-> MAX_AGE_MINUTES, result |-> None ]
  /\ UNCHANGED << now, created >>
  /\ UNCHANGED << pipelineVars, serviceVars >>

\* ------------------------------------------- stream_progress.event_generator
\* AnalysisJob.unsubscribe: list.remove of the queue, when it is in the list.
Unsubscribe(subs, c) == SelectSeq(subs, LAMBDA x : x # c)

\* `if update.step in [COMPLETED, FAILED]: break`
EndsStream(step) == step \in TerminalSteps

\* A stream that has not connected yet, and one that has ended (its history is dropped).
IdleStream ==
  [ pc |-> "idle", update |-> NONE, sub_at |-> 0, received |-> 0,
    terminal_seen |-> FALSE, late_data |-> FALSE ]

EndedStream(how) == [ IdleStream EXCEPT !.pc = how ]

\* GET /progress/{analysis_id}: the generator starts, subscribes a new queue and
\* yields the current snapshot.  Streams are numbered in the order they connect.
\* History: sub_at is the number of update_step calls made before the subscription,
\* received the number of updates taken from the queue, terminal_seen whether a data
\* event with a terminal step was yielded, late_data whether a data event was
\* yielded after such an event.
StreamConnect(c) ==
  /\ JobVisible
  /\ streams[c].pc = "idle"
  /\ \A b \in StreamIds : b < c => streams[b].pc # "idle"
  /\ subscribers' = Append(subscribers, c)
  /\ queues' = [ queues EXCEPT ![c] = << >> ]
  /\ streams' = [ streams EXCEPT ![c] =
       [ pc |-> "yield_current", update |-> NONE, sub_at |-> updates, received |-> 0,
         terminal_seen |-> GetProgress(job).step \in TerminalSteps, late_data |-> FALSE ] ]
  /\ UNCHANGED << job, updates, entered, regressed, backward, run, db, cancels, cancel_mark >>
  /\ UNCHANGED << managerVars, serviceVars >>

\* The client takes the next event: the generator resumes after its yield and, unless
\* it breaks out of the loop, waits on its queue.
StreamResume(c) ==
  /\ streams[c].pc \in { "yield_current", "yield_update" }
  /\ IF streams[c].pc = "yield_update" /\ EndsStream(streams[c].update)
     THEN /\ streams' = [ streams EXCEPT ![c] = EndedStream("done") ]
          /\ subscribers' = Unsubscribe(subscribers, c)
          /\ queues' = [ queues EXCEPT ![c] = << >> ]
     ELSE /\ streams' = [ streams EXCEPT ![c].pc = "waiting" ]
          /\ UNCHANGED << subscribers, queues >>
  /\ UNCHANGED << job, updates, entered, regressed, backward, run, db, cancels, cancel_mark >>
  /\ UNCHANGED << managerVars, serviceVars >>

\* queue.get() returns an update, which is yielded as a data event.
StreamGet(c) ==
  /\ streams[c].pc = "waiting"
  /\ queues[c] # << >>
  /\ queues' = [ queues EXCEPT ![c] = Tail(@) ]
  /\ streams' = [ streams EXCEPT
       ![c].pc = "yield_update",
       ![c].update = Head(queues[c]).step,
       ![c].received = @ + 1,
       ![c].late_data = @ \/ streams[c].terminal_seen,
       ![c].terminal_seen = @ \/ Head(queues[c]).step \in TerminalSteps ]
  /\ UNCHANGED << job, subscribers, updates, entered, regressed, backward, run, db, cancels,
                  cancel_mark >>
  /\ UNCHANGED << managerVars, serviceVars >>

\* The client disconnects: the generator is cancelled where it is suspended, and its
\* finally clause unsubscribes the queue.
StreamDisconnect(c) ==
  /\ streams[c].pc \in { "yield_current", "yield_update", "waiting" }
  /\ streams' = [ streams EXCEPT ![c] = EndedStream("closed") ]
  /\ subscribers' = Unsubscribe(subscribers, c)
  /\ queues' = [ queues EXCEPT ![c] = << >> ]
  /\ UNCHANGED << job, updates, entered, regressed, backward, run, db, cancels, cancel_mark >>
  /\ UNCHANGED << managerVars, serviceVars >>

\* ------------------------------------------- AnalysisJob under arbitrary callers
\* The most update_step calls made on the job in one behaviour.
MaxUpdates == 2

\* The keyword arguments update_step is called with.
UpdatePatches ==
  { NoPatch,
    [ error |-> "Analysis cancelled by user" ],
    [ video_id |-> "vid", video_title |-> "title", video_thumbnail |-> "thumb" ],
    [ video_title |-> "renamed" ],
    [ comments_fetched |-> MIN_COMMENTS, total_comments |-> MIN_COMMENTS ] }

\* job.update_step(step, **patch), by whoever holds the job.
UpdateStepCall ==
  \E step \in Steps, patch \in UpdatePatches :
    /\ updates < MaxUpdates
    /\ LET w == UpdateStep(Tracker, step, patch)
       IN /\ job' = w.job
          /\ queues' = w.queues
          /\ updates' = w.updates
          /\ entered' = w.entered
          /\ regressed' = w.regressed
          /\ backward' = w.backward
    /\ called' = [ op |-> "AnalysisJob.update_step",
                   arg |-> [ step |-> step, patch |-> patch ], result |-> None ]
    /\ UNCHANGED << subscribers, run, db, streams, cancels, cancel_mark >>
    /\ UNCHANGED << jobs, user_jobs, now, created >>
    /\ UNCHANGED serviceVars

\* ------------------------------------------------------------- CacheService
\* CacheTTL.MEDIUM, the default ttl of get_or_set, and CacheTTL.ANALYSIS, in seconds.
CacheTTL_MEDIUM == 1800
CacheTTL_ANALYSIS == 3600

\* The most get_or_set calls made on one CacheService.
MaxCacheCalls == 2

CacheKeyNames == { "analysis:a1", "comments:v1" }
Ttls == { CacheTTL_MEDIUM, CacheTTL_ANALYSIS }

\* The values a factory produces: a dict of JSON types, a dict holding a datetime.
V_PLAIN == "{total: 3}"
V_DATETIME == "{at: datetime(2026, 1, 1)}"
\* The dict json.loads gives back for a stored V_DATETIME: the datetime is now a str.
V_STR == "{at: '2026-01-01 00:00:00'}"
FactoryValues == { V_PLAIN, V_DATETIME }

\* A Redis string that is no JSON document.
NOT_JSON == "not json"

\* json.dumps(value, default=str): what json cannot encode goes through str().
Dumps(value) ==
  CASE value = V_PLAIN -> "json {total: 3}"
    [] value = V_DATETIME -> "json {at: '2026-01-01 00:00:00'}"
    [] value = V_STR -> "json {at: '2026-01-01 00:00:00'}"

\* json.loads(text): the decoded document, or the JSONDecodeError it raises.
Loads(text) ==
  CASE text = "json {total: 3}" -> V_PLAIN
    [] text = "json {at: '2026-01-01 00:00:00'}" -> V_STR
    [] OTHER -> "JSONDecodeError"

\* What a Redis command can do: answer, or raise (connection lost, time-out).
RedisOutcomes == { "ok", "ConnectionError" }

\* What an awaited factory_fn() can do: return a value, return None, or raise.
FactoryOutcomes == FactoryValues \cup { NONE, "ValueError", "RuntimeError" }

EmptyRedis == [ k \in CacheKeyNames |-> None ]

\* RedisClient.get: the string under the key; None when there is none or Redis raises.
ClientGet(store, key, outcome) ==
  IF outcome = "ok" /\ store[key] # None THEN store[key][1].value ELSE NONE

\* RedisClient.set with a ttl: setex, True; the store untouched and False when Redis
\* raises.  Every ttl passed here is non-zero, so the setex branch is the one taken.
ClientSet(store, key, value, ttl, outcome) ==
  IF outcome = "ok"
  THEN [ store |-> [ store EXCEPT ![key] = Some([ value |-> value, ttl |-> ttl ]) ],
         result |-> TRUE ]
  ELSE [ store |-> store, result |-> FALSE ]

NewStats == [ hits |-> 0, misses |-> 0, sets |-> 0, errors |-> 0 ]

\* CacheService.get: the decoded value, or None on a miss, on a Redis failure and on
\* a value that does not decode.
Get(stats, store, key, outcome) ==
  LET value == ClientGet(store, key, outcome)
  IN IF value # NONE
     THEN IF Loads(value) = "JSONDecodeError"
          THEN [ stats |-> [ stats EXCEPT !.hits = @ + 1, !.errors = @ + 1 ],
                 result |-> NONE ]
          ELSE [ stats |-> [ stats EXCEPT !.hits = @ + 1 ], result |-> Loads(value) ]
     ELSE [ stats |-> [ stats EXCEPT !.misses = @ + 1 ], result |-> NONE ]

\* CacheService.set: serialize, store, count the set when Redis took it.
Set(stats, store, key, value, ttl, outcome) ==
  LET written == ClientSet(store, key, Dumps(value), ttl, outcome)
  IN [ stats |-> IF written.result THEN [ stats EXCEPT !.sets = @ + 1 ] ELSE stats,
       store |-> written.store,
       result |-> written.result ]

\* A handler that lets every factory failure through.
GetOrSetExceptNone == "KeyboardInterrupt"

\* The class named by the handler around the factory call: `except Exception as e`.
GetOrSetExcept == "Exception"

NewCache ==
  [ stats |-> NewStats, pc |-> "idle", calls |-> 0, key |-> NONE, ttl |-> 0,
    read |-> NONE, entry |-> None, value |-> NONE, factory |-> NONE, factory_calls |-> 0,
    written |-> NONE, after |-> None, result |-> NONE, exc |-> NONE ]

\* get_or_set(key, factory_fn, ttl) up to its first return or to the factory call:
\* `cached = await self.get(key)`, returned when it is not None.
GetOrSetCall ==
  \E key \in CacheKeyNames, ttl \in Ttls, outcome \in RedisOutcomes :
    /\ cache.pc \in { "idle", "returned", "raised" }
    /\ cache.calls < MaxCacheCalls
    /\ LET got == Get(cache.stats, redis, key, outcome)
           call == [ NewCache EXCEPT !.stats = got.stats, !.calls = cache.calls + 1,
                                     !.key = key, !.ttl = ttl, !.read = outcome,
                                     !.entry = redis[key] ]
       IN cache' = IF got.result # NONE
                   THEN [ call EXCEPT !.pc = "returned", !.result = got.result ]
                   ELSE [ call EXCEPT !.pc = "factory" ]
    /\ UNCHANGED << redis, comment, gen, fetch, ask >>
    /\ UNCHANGED << pipelineVars, managerVars >>

\* `value = await factory_fn()` returns or raises.
GetOrSetFactoryReturns ==
  \E outcome \in FactoryOutcomes :
    /\ cache.pc = "factory"
    /\ LET called_once == [ cache EXCEPT !.factory_calls = @ + 1, !.factory = outcome ]
       IN cache' =
            IF outcome \in FactoryValues
            THEN [ called_once EXCEPT !.pc = "set", !.value = outcome ]
            ELSE IF outcome = NONE
            THEN [ called_once EXCEPT !.pc = "returned", !.result = NONE ]
            ELSE IF IsInstance(outcome, GetOrSetExcept)
            THEN [ called_once EXCEPT !.pc = "returned", !.result = NONE ]
            ELSE [ called_once EXCEPT !.pc = "raised", !.exc = outcome ]
    /\ UNCHANGED << redis, comment, gen, fetch, ask >>
    /\ UNCHANGED << pipelineVars, managerVars >>

\* `await self.set(key, value, ttl=ttl)` returns; get_or_set returns the value.
GetOrSetSetReturns ==
  \E outcome \in RedisOutcomes :
    /\ cache.pc = "set"
    /\ LET done == Set(cache.stats, redis, cache.key, cache.value, cache.ttl, outcome)
       IN /\ redis' = done.store
          /\ cache' = [ cache EXCEPT !.pc = "returned", !.stats = done.stats,
                                     !.written = outcome, !.after = done.store[cache.key],
                                     !.result = cache.value ]
    /\ UNCHANGED << comment, gen, fetch, ask >>
    /\ UNCHANGED << pipelineVars, managerVars >>

\* Redis drops a key whose ttl ran out.
RedisExpire ==
  \E key \in CacheKeyNames :
    /\ redis[key] # None
    /\ redis' = [ redis EXCEPT ![key] = None ]
    /\ UNCHANGED << cache, comment, gen, fetch, ask >>
    /\ UNCHANGED << pipelineVars, managerVars >>

\* ------------------------------------------- YouTubeService engagement score
\* The word counts between which a comment earns the "substantive" bonus.
WORDS_MIN == 30
WORDS_MAX == 200

\* The largest integer square root taken; like counts stay below MaxRoot * MaxRoot.
MaxRoot == 1024

\* A like count from which rounding to two decimals starts to merge neighbours.
HighLikes == 250705

\* floor(sqrt(n)).
Isqrt(n) == CHOOSE q \in 0 .. MaxRoot : q * q <= n /\ (q + 1) * (q + 1) > n

\* (2000 * q + t)^2 <= 4000000 * m, for q = Isqrt(m), in arithmetic that stays below
\* 2^31: with t * t = 4000 * a + b the inequality is q * t + a + [b > 0] <= 1000 * (m - q * q).
FitsUnder(m, q, t) ==
  q * t + ((t * t) \div 4000) + (IF (t * t) % 4000 > 0 THEN 1 ELSE 0) <= 1000 * (m - q * q)

\* round((likes + 1) ** 0.5 * 10, 2) in hundredths: the integer nearest to
\* 1000 * sqrt(m), which is (floor(2000 * sqrt(m)) + 1) div 2.  sqrt(m) is an integer
\* or irrational, so no value lies half-way and the float result is this one.
RoundedRoot(m) ==
  LET q == Isqrt(m)
      t == CHOOSE u \in 0 .. 1999 : FitsUnder(m, q, u) /\ ~FitsUnder(m, q, u + 1)
  IN (2000 * q + t + 1) \div 2

\* A score that leaves the replies out.
CalculateEngagementScoreLikesOnly(c) ==
  RoundedRoot(c.like_count + 1)
    + (IF c.is_question THEN 1500 ELSE 0)
    + (IF c.is_feedback THEN 1000 ELSE 0)

\* _calculate_engagement_score(comment), in hundredths: the terms added after the
\* square root are whole numbers, so round(score, 2) rounds the square-root term.
CalculateEngagementScore(c) ==
  RoundedRoot(c.like_count + 1)
    + c.reply_count * 500
    + (IF c.is_question THEN 1500 ELSE 0)
    + (IF c.is_feedback THEN 1000 ELSE 0)
    + (IF WORDS_MIN <= c.word_count /\ c.word_count <= WORDS_MAX THEN 500 ELSE 0)

LikeCounts == { 0, 1, 2, 3, 99, HighLikes, HighLikes + 1, HighLikes + 2 }
ReplyCounts == { 0, 1, 2 }
WordCounts == { 0, WORDS_MIN - 1, WORDS_MIN, WORDS_MAX, WORDS_MAX + 1 }

\* The comment_data dicts fetch_comments builds before it scores them.
CommentData ==
  [ like_count : LikeCounts, reply_count : ReplyCounts, is_question : BOOLEAN,
    is_feedback : BOOLEAN, word_count : WordCounts ]

Scored(c) ==
  [ like_count |-> c.like_count, reply_count |-> c.reply_count,
    is_question |-> c.is_question, is_feedback |-> c.is_feedback,
    word_count |-> c.word_count, engagement_score |-> CalculateEngagementScore(c) ]

\* Every comment_data with its score.
ScoredComments == { Scored(c) : c \in CommentData }

\* A comment nobody liked or answered.
PlainComment ==
  [ like_count |-> 0, reply_count |-> 0, is_question |-> FALSE, is_feedback |-> FALSE,
    word_count |-> 0 ]

\* fetch_comments scores the next comment of the page:
\* comment_data['engagement_score'] = self._calculate_engagement_score(comment_data).
ScoreComment ==
  \E scored \in ScoredComments :
    /\ comment' = scored
    /\ UNCHANGED << redis, cache, gen, fetch, ask >>
    /\ UNCHANGED << pipelineVars, managerVars >>

\* ------------------------------------------- YouTubeService.fetch_comments
\* comments_per_video of the plans.
PLANS == [ free |-> 100, starter |-> 1000, pro |-> 3000, business |-> 10000 ]

\* get_plan(user_plan).comments_per_video: the free plan's for an unknown plan id.
GetPlan(user_plan) == IF user_plan \in DOMAIN PLANS THEN PLANS[user_plan] ELSE PLANS.free

\* max_to_fetch
MaxToFetch(max_comments, user_plan) == Min(max_comments, GetPlan(user_plan))

\* A merge that takes from the later run first when keys are equal.
MergeDescendingLaterFirst(early, late) ==
  LET placed ==
        { << i + Cardinality({ j \in DOMAIN late : late[j].key >= early[i].key }), early[i] >> :
            i \in DOMAIN early }
        \cup
        { << j + Cardinality({ i \in DOMAIN early : early[i].key > late[j].key }), late[j] >> :
            j \in DOMAIN late }
  IN [ p \in 1 .. Len(early) + Len(late) |-> (CHOOSE e \in placed : e[1] = p)[2] ]

\* The merge of two runs already in descending order of key, `early` holding the
\* items that came first: an item goes behind every item of the other run that ranks
\* before it, and on equal keys the one of `early` ranks first (the sort is stable).
MergeDescending(early, late) ==
  LET placed ==
        { << i + Cardinality({ j \in DOMAIN late : late[j].key > early[i].key }), early[i] >> :
            i \in DOMAIN early }
        \cup
        { << j + Cardinality({ i \in DOMAIN early : early[i].key >= late[j].key }), late[j] >> :
            j \in DOMAIN late }
  IN [ p \in 1 .. Len(early) + Len(late) |-> (CHOOSE e \in placed : e[1] = p)[2] ]

\* sorted(..., reverse=True) on items decorated with their keys: a stable merge sort.
RECURSIVE SortedByKeyDescending(_)
SortedByKeyDescending(keyed) ==
  IF Len(keyed) <= 1 THEN keyed
  ELSE LET half == Len(keyed) \div 2
       IN MergeDescending(SortedByKeyDescending(SubSeq(keyed, 1, half)),
                          SortedByKeyDescending(SubSeq(keyed, half + 1, Len(keyed))))

\* The items of a decorated list.
Items(keyed) == [ k \in DOMAIN keyed |-> keyed[k].item ]

\* sorted(raw_comments, key=lambda c: c.engagement_score, reverse=True)
SortedDescending(raw) ==
  Items(SortedByKeyDescending(
          [ k \in DOMAIN raw |-> [ key |-> raw[k].engagement_score, item |-> raw[k] ] ]))

\* seq[:k], for k >= 0
Take(seq, k) == SubSeq(seq, 1, Min(Len(seq), k))

\* sorted_comments: the sort, then the slice.
Truncated(sorted, max_comments, user_plan) ==
  Take(sorted, MaxToFetch(max_comments, user_plan))

SelectComments(raw, max_comments, user_plan) ==
  Truncated(SortedDescending(raw), max_comments, user_plan)

\* The surviving comments of a fetch whose engagement scores are `scores`, in fetch
\* order; a comment's id is its position in that order.
RawComments(scores) ==
  [ k \in DOMAIN scores |-> [ comment_id |-> k, engagement_score |-> scores[k] ] ]

\* Raw lists explored: every list of up to MaxRaw comments with scores (in hundredths)
\* from EngagementScores, and lists around the free plan's limit whose scores repeat a
\* pattern.
MaxRaw == 4

EngagementScores == { 1000, 1500, 2914 }

RECURSIVE ScoreLists(_)
ScoreLists(len) ==
  IF len = 0 THEN { << >> }
  ELSE LET shorter == ScoreLists(len - 1)
       IN shorter \cup { Append(l, x) : l \in { m \in shorter : Len(m) = len - 1 },
                                         x \in EngagementScores }

ScorePatterns == { << 1000 >>, << 1000, 1500, 2914 >>, << 2914, 1000 >> }

LongScoreLists ==
  { [ k \in 1 .. len |-> p[((k - 1) % Len(p)) + 1] ] :
      len \in { PLANS.free, PLANS.free + 1, PLANS.free + 2 }, p \in ScorePatterns }

\* request.max_comments is validated to 1 .. 10000.
MaxCommentsValues == { 1, 2, 3, PLANS.free, PLANS.free + 1, PLANS.business }

UserPlans == { "free", "starter", "enterprise" }

\* The calls on one raw list, and what each selects (the list is sorted once).
SelectionsOf(scores) ==
  LET raw == RawComments(scores)
      sorted == SortedDescending(raw)
  IN { [ raw |-> raw, max_comments |-> m, user_plan |-> p,
         comments |-> Truncated(sorted, m, p) ] : m \in MaxCommentsValues, p \in UserPlans }

\* One fetch_comments call, from the end of its paging loop: the sort and the
\* truncation.
FetchComments ==
  /\ fetch = None
  /\ \E scores \in ScoreLists(MaxRaw) \cup LongScoreLists :
       \E selection \in SelectionsOf(scores) : fetch' = Some(selection)
  /\ UNCHANGED << redis, cache, comment, gen, ask >>
  /\ UNCHANGED << pipelineVars, managerVars >>

\* ---------------------------------- AskAIService._extract_content_requests
\* A text is a sequence of characters.  str.lower() on the characters used here.
LowerChar(ch) ==
  CASE ch = "A" -> "a" [] ch = "B" -> "b" [] ch = "C" -> "c" [] OTHER -> ch

Lower(text) == << >> \o [ k \in DOMAIN text |-> LowerChar(text[k]) ]

\* str.strip(): leading and trailing white space removed.
Strip(text) ==
  LET inked == { k \in DOMAIN text : text[k] # " " }
  IN IF inked = {} THEN << >>
     ELSE SubSeq(text, CHOOSE k \in inked : \A j \in inked : k <= j,
                       CHOOSE k \in inked : \A j \in inked : j <= k)

\* re.sub(r'[.,!?]+$', '', topic)
TrailingPunctuationRemoved(topic) ==
  LET kept == { k \in DOMAIN topic : topic[k] \notin { ".", ",", "!", "?" } }
  IN IF kept = {} THEN << >>
     ELSE SubSeq(topic, 1, CHOOSE k \in kept : \A j \in kept : j <= k)

\* The topic of a match the patterns capture in the text of a comment; the patterns
\* are applied to text.lower().
Topic(match) == TrailingPunctuationRemoved(Strip(Lower(match)))

TOPIC_MIN == 5
TOPIC_MAX == 100
TOPIC_KEY == 50
TOPIC_SHOWN == 80
TOP_N == 10

\* `if len(topic) < 5 or len(topic) > 100: continue`
TopicKept(topic) == Len(topic) >= TOPIC_MIN /\ Len(topic) <= TOPIC_MAX

\* A key that is the whole topic.
TopicKeyWhole(topic) == Lower(topic)

\* topic[:50].lower()
TopicKey(topic) == Lower(Take(topic, TOPIC_KEY))

\* "high" if count >= 5 else "medium" if count >= 3 else "low"
Priority(count) == IF count >= 5 THEN "high" ELSE IF count >= 3 THEN "medium" ELSE "low"

\* The k-th smallest element of a set of numbers.
Nth(numbers, k) == CHOOSE i \in numbers : Cardinality({ j \in numbers : j <= i }) = k

\* The positions at which a key occurs for the first time in a list of keys: the
\* order in which a dict gets its keys.
FirstOccurrences(keys) == { i \in DOMAIN keys : \A j \in 1 .. i - 1 : keys[j] # keys[i] }

\* _extract_content_requests on the matches of the comments, in the order the loops
\* meet them: the dict `requests` (key -> count, in insertion order, with the topic
\* of the first mention), sorted by count, formatted, cut to ten.
ExtractContentRequests(matches) ==
  LET all == [ k \in DOMAIN matches |-> Topic(matches[k]) ]
      topics == SelectSeq(all, TopicKept)
      keys == << >> \o [ k \in DOMAIN topics |-> TopicKey(topics[k]) ]
      firsts == FirstOccurrences(keys)
      requests == [ p \in 1 .. Cardinality(firsts) |->
                    LET i == Nth(firsts, p)
                    IN [ key |-> Cardinality({ j \in DOMAIN keys : keys[j] = keys[i] }),
                         item |-> Take(topics[i], TOPIC_SHOWN) ] ]
      ranked == SortedByKeyDescending(requests)
  IN Take([ k \in DOMAIN ranked |->
            [ topic |-> ranked[k].item, demand |-> ranked[k].key,
              priority |-> Priority(ranked[k].key) ] ], TOP_N)

\* Matches explored.  A video's comments ask for up to MaxTopics topics, the j-th of
\* them Mentions(pattern, j) times; in front of these come up to two matches
\* from OddMatches: topics as long as the key, one longer, two that differ behind the
\* key, one that differs at its last character, the shortest and longest topics kept,
\* one too short and one too long, and spellings of the first topic with capitals,
\* spaces and punctuation.
MaxTopics == 12

Letters == << "a", "b", "c", "d", "e", "f", "g", "h", "i", "j", "k", "l", "m" >>

PlainTopic(j) == << "v", "i", "d", "e", "o", Letters[j] >>

Repeated(ch, n) == [ k \in 1 .. n |-> ch ]

OddMatches ==
  { Repeated("x", TOPIC_KEY),
    Repeated("x", TOPIC_KEY) \o << "y" >>,
    Repeated("x", TOPIC_KEY) \o << "z" >>,
    Repeated("x", TOPIC_KEY - 1) \o << "y" >>,
    Repeated("x", TOPIC_MIN - 1),
    Repeated("x", TOPIC_MIN),
    Repeated("w", TOPIC_MAX),
    Repeated("w", TOPIC_MAX + 1),
    << "V", "i", "d", "e", "o", "A" >>,
    << " ", "v", "i", "d", "e", "o", "a", "!", "!" >>,
    << "v", "i", "d", "e", "o", "a", " ", "!" >> }

MentionPatterns == { "once", "rising", "falling", "waves" }

Mentions(pattern, j) ==
  CASE pattern = "once" -> 1
    [] pattern = "rising" -> (j + 1) \div 2
    [] pattern = "falling" -> ((MaxTopics - j) \div 2) + 1
    [] pattern = "waves" -> ((j * 2) % 5) + 1

\* Topic 1 Mentions(pattern, 1) times, then topic 2, and so on up to topic g.
RECURSIVE Blocks(_, _)
Blocks(pattern, g) ==
  IF g = 0 THEN << >>
  ELSE Blocks(pattern, g - 1) \o [ k \in 1 .. Mentions(pattern, g) |-> PlainTopic(g) ]

TopicCounts == { 0, 1, TOP_N - 1, TOP_N, TOP_N + 1, MaxTopics }

ExtraMatches ==
  { << >> } \cup { << x >> : x \in OddMatches } \cup (OddMatches \X OddMatches)

\* One _extract_content_requests call.
ExtractContentRequestsCall ==
  /\ ask = None
  /\ \E extra \in ExtraMatches, pattern \in MentionPatterns, g \in TopicCounts :
       LET matches == extra \o Blocks(pattern, g)
       IN ask' = Some([ op |-> "_extract_content_requests", input |-> matches,
                        result |-> ExtractContentRequests(matches) ])
  /\ UNCHANGED << redis, cache, comment, gen, fetch >>
  /\ UNCHANGED << pipelineVars, managerVars >>

\* ---------------------------------- AskAIService._group_similar_questions
\* A comment's text is the sequence of its words (what re.findall(r'\b\w+\b', ...)
\* finds in text.lower()) and whether it holds a question mark.  The words used, in
\* the order of Python's string comparison, and those of them of at most 3 letters.
Dictionary ==
  << "about", "are", "audio", "battery", "camera", "drone", "editing", "fix", "focus",
     "general", "gimbal", "how", "lens", "lighting", "microphone", "monitor", "python",
     "storage", "tripod", "tutorial", "what", "you" >>

ShortWords == { "are", "fix", "how", "you" }

common_words ==
  { "the", "a", "an", "is", "are", "was", "were", "what", "how", "why", "when", "where",
    "who", "which", "do", "does", "did", "can", "could", "would", "should", "your",
    "you", "this", "that", "these", "those" }

Rank(word) == CHOOSE k \in DOMAIN Dictionary : Dictionary[k] = word

IsKeyword(word) == word \notin common_words /\ word \notin ShortWords

\* keywords = [w for w in words if w not in common_words and len(w) > 3][:5]
Keywords(words) == Take(SelectSeq(words, IsKeyword), 5)

\* sorted(keywords[:3]): ascending, repeated words kept.
SortedWords(words) ==
  Items(SortedByKeyDescending([ k \in DOMAIN words |->
                                [ key |-> 0 - Rank(words[k]), item |-> words[k] ] ]))

\* group_key = tuple(sorted(keywords[:3])) if keywords else ("general",)
GroupKey(words) ==
  LET keywords == Keywords(words)
  IN IF keywords # << >> THEN SortedWords(Take(keywords, 3)) ELSE << "general" >>

\* `if c.get("is_question") or "?" in text`
CountedAsQuestion(c) == c.is_question \/ c.text.qmark

\* "high" if count >= 10 else "medium" if count >= 5 else "low"
DemandLevel(count) ==
  IF count >= 10 THEN "high" ELSE IF count >= 5 THEN "medium" ELSE "low"

\* The dict `groups` after the loop over the questions, in insertion order; the
\* members of a group are positions in `comments`, the first of them the comment
\* whose text is full_texts[0].
QuestionGroups(comments) ==
  LET questions == { i \in DOMAIN comments : CountedAsQuestion(comments[i]) }
      keys == << >> \o [ i \in DOMAIN comments |-> GroupKey(comments[i].text.words) ]
      firsts == { i \in questions : \A j \in questions : j < i => keys[j] # keys[i] }
  IN [ p \in 1 .. Cardinality(firsts) |->
       LET i == Nth(firsts, p)
       IN [ group_key |-> keys[i], first |-> i,
            members |-> { j \in questions : keys[j] = keys[i] } ] ]

AtLeastTwo(ranked) == ranked.key >= 2

\* The groups sorted by count, those of fewer than 2 questions left out, cut to ten.
\* The texts here are shorter than the 150 and 200 characters kept of them.
FormatQuestionGroups(comments, groups) ==
  LET ranked == SelectSeq(SortedByKeyDescending(
                  [ p \in DOMAIN groups |->
                    [ key |-> Cardinality(groups[p].members), item |-> groups[p] ] ]),
                  AtLeastTwo)
  IN Take([ k \in DOMAIN ranked |->
            [ question_theme |-> comments[ranked[k].item.first].text,
              count |-> ranked[k].key,
              demand_level |-> DemandLevel(ranked[k].key) ] ], TOP_N)

\* Comments explored.  Up to MaxGroups subjects are asked about, the j-th of them
\* Asked(pattern, j) times; in front come up to two comments from OddComments:
\* questions that repeat a keyword, that differ in the order of their keywords or
\* behind the third, one without keywords and one whose keyword is "general", a
\* question flagged without a question mark, and a comment that is no question.
MaxGroups == 12

Subjects ==
  << "audio", "battery", "camera", "drone", "editing", "focus", "gimbal", "lens",
     "lighting", "microphone", "monitor", "storage", "tripod" >>

Question(words) == [ is_question |-> TRUE, text |-> [ words |-> words, qmark |-> TRUE ] ]

OddComments ==
  { Question(<< "python", "python", "tutorial" >>),
    Question(<< "python", "tutorial", "tutorial" >>),
    Question(<< "tutorial", "python" >>),
    Question(<< "python", "tutorial" >>),
    Question(<< "how", "are", "you" >>),
    Question(<< "general" >>),
    Question(<< "audio", "about", "fix", "camera", "lens" >>),
    Question(<< "audio", "about", "camera", "tripod" >>),
    [ is_question |-> TRUE,
      text |-> [ words |-> << "how", "about", "audio" >>, qmark |-> FALSE ] ],
    [ is_question |-> FALSE,
      text |-> [ words |-> << "about", "audio" >>, qmark |-> FALSE ] ] }

OddCommentLists ==
  { << >> } \cup { << c >> : c \in OddComments } \cup (OddComments \X OddComments)

AskPatterns == { "once", "twice", "rising", "peaks" }

Asked(pattern, j) ==
  CASE pattern = "once" -> 1
    [] pattern = "twice" -> 2
    [] pattern = "rising" -> j
    [] pattern = "peaks" -> IF j % 3 = 0 THEN 10 ELSE IF j % 3 = 1 THEN 5 ELSE 4

RECURSIVE AskedQuestions(_, _)
AskedQuestions(pattern, g) ==
  IF g = 0 THEN << >>
  ELSE AskedQuestions(pattern, g - 1)
         \o [ k \in 1 .. Asked(pattern, g) |-> Question(<< "what", "about", Subjects[g] >>) ]

GroupCounts == { 0, 1, TOP_N, TOP_N + 1, MaxGroups }

\* One _group_similar_questions call.
GroupSimilarQuestionsCall ==
  /\ ask = None
  /\ \E odd \in OddCommentLists, pattern \in AskPatterns, g \in GroupCounts :
       LET comments == odd \o AskedQuestions(pattern, g)
           groups == QuestionGroups(comments)
       IN ask' = Some([ op |-> "_group_similar_questions", input |-> comments,
                        groups |-> groups,
                        result |-> FormatQuestionGroups(comments, groups) ])
  /\ UNCHANGED << redis, cache, comment, gen, fetch >>
  /\ UNCHANGED << pipelineVars, managerVars >>

\* ---------------------------------- AskAIService._identify_superfans
\* The sum of values[i] over the positions i of a set.
RECURSIVE SumAt(_, _)
SumAt(values, positions) ==
  IF positions = {} THEN 0
  ELSE LET i == CHOOSE i \in positions : TRUE
       IN values[i] + SumAt(values, positions \ { i })

\* `if author == "Unknown" or author == "Viewer": continue`
Placeholder(author) == author \in { "Unknown", "Viewer" }

\* `if "?" in text`
HasQuestionMark(c) == c.qmark

\* `if comment.get("is_feedback") or comment.get("category") in ["feedback", "suggestion"]`
GivesFeedback(c) == c.is_feedback \/ c.category \in { "feedback", "suggestion" }

\* author_stats after the loop over the comments, in insertion order.  A comment
\* carries len(text.split()) as `words`.
AuthorStats(comments) ==
  LET counted == { i \in DOMAIN comments : ~Placeholder(comments[i].author) }
      firsts == { i \in counted :
                    \A j \in counted : j < i => comments[j].author # comments[i].author }
      words == [ i \in DOMAIN comments |-> comments[i].words ]
      likes == [ i \in DOMAIN comments |-> comments[i].like_count ]
  IN [ p \in 1 .. Cardinality(firsts) |->
       LET author == comments[Nth(firsts, p)].author
           own == { i \in counted : comments[i].author = author }
       IN [ author |-> author,
            comment_count |-> Cardinality(own),
            total_words |-> SumAt(words, own),
            total_likes |-> SumAt(likes, own),
            has_questions |-> \E i \in own : HasQuestionMark(comments[i]),
            has_feedback |-> \E i \in own : GivesFeedback(comments[i]) ] ]

\* Ten times the score: min(total_words, 500) / 10 is a float with one decimal.
ScoreTenths(stats) ==
  stats.comment_count * 100 + Min(stats.total_words, 500) + stats.total_likes * 20
    + (IF stats.has_questions THEN 200 ELSE 0) + (IF stats.has_feedback THEN 200 ELSE 0)

\* int(score)
EngagementScore(stats) == ScoreTenths(stats) \div 10

CommentedTwice(stats) == stats.comment_count >= 2

\* The authors of at least 2 comments with their scores, sorted, cut to ten.
IdentifySuperfans(comments) ==
  LET stats == SelectSeq(AuthorStats(comments), CommentedTwice)
      ranked == SortedByKeyDescending(
                  [ p \in DOMAIN stats |->
                    [ key |-> EngagementScore(stats[p]), item |-> stats[p] ] ])
  IN Take([ k \in DOMAIN ranked |->
            [ author |-> ranked[k].item.author,
              engagement_score |-> ranked[k].key,
              comment_count |-> ranked[k].item.comment_count,
              total_likes |-> ranked[k].item.total_likes ] ], TOP_N)

\* Comments explored.  Up to MaxFans authors comment, the j-th of them
\* Commented(pattern, j) times; in front come up to two comments from OddFanComments:
\* comments of the placeholder authors, and comments of a guest and of the first
\* author that are questions with and without a question mark, feedback by flag and
\* by category, criticism, a comment of 600 words and one with likes.
MaxFans == 12

Fans ==
  << "fan01", "fan02", "fan03", "fan04", "fan05", "fan06", "fan07", "fan08", "fan09",
     "fan10", "fan11", "fan12", "fan13" >>

Plain(author, words, likes) ==
  [ author |-> author, words |-> words, like_count |-> likes, qmark |-> FALSE,
    is_question |-> FALSE, is_feedback |-> FALSE, category |-> "other" ]

OddFanComments ==
  { Plain("Unknown", 3, 9), Plain("Viewer", 3, 9), Plain("guest", 3, 0),
    Plain("guest", 600, 0), Plain("guest", 7, 3),
    [ Plain("guest", 3, 0) EXCEPT !.qmark = TRUE, !.is_question = TRUE ],
    [ Plain("guest", 3, 0) EXCEPT !.is_question = TRUE ],
    [ Plain("fan01", 3, 0) EXCEPT !.is_question = TRUE ],
    [ Plain("guest", 3, 0) EXCEPT !.is_feedback = TRUE ],
    [ Plain("guest", 3, 0) EXCEPT !.category = "suggestion" ],
    [ Plain("guest", 3, 0) EXCEPT !.category = "criticism" ] }

OddFanCommentLists ==
  { << >> } \cup { << c >> : c \in OddFanComments } \cup (OddFanComments \X OddFanComments)

FanPatterns == { "pairs", "liked", "mixed" }

Commented(pattern, j) == IF pattern = "mixed" THEN 1 + (j % 3) ELSE 2

FanComment(pattern, j) ==
  CASE pattern = "pairs" -> Plain(Fans[j], 4, 0)
    [] pattern = "liked" -> Plain(Fans[j], 4, j % 4)
    [] pattern = "mixed" -> Plain(Fans[j], (j * 7) % 10, (j * 5) % 3)

RECURSIVE FanComments(_, _)
FanComments(pattern, g) ==
  IF g = 0 THEN << >>
  ELSE FanComments(pattern, g - 1)
         \o [ k \in 1 .. Commented(pattern, g) |-> FanComment(pattern, g) ]

FanCounts == { 0, 1, TOP_N, TOP_N + 1, MaxFans }

\* One _identify_superfans call.
IdentifySuperfansCall ==
  /\ ask = None
  /\ \E odd \in OddFanCommentLists, pattern \in FanPatterns, g \in FanCounts :
       LET comments == odd \o FanComments(pattern, g)
       IN ask' = Some([ op |-> "_identify_superfans", input |-> comments,
                        result |-> IdentifySuperfans(comments) ])
  /\ UNCHANGED << redis, cache, comment, gen, fetch >>
  /\ UNCHANGED << pipelineVars, managerVars >>

\* ------------------------------------------------------ GeminiClient.generate
MAX_RETRIES == 3
RETRY_DELAY_SECONDS == 1

\* What model.generate_content returns: a response with text, one with no candidate,
\* one whose first candidate has finish_reason SAFETY or RECITATION.
Responses == { "text", "no candidates", "SAFETY", "RECITATION" }

\* str(e) of the exceptions model.generate_content raises: quota exhausted, model
\* overloaded, two invalid requests (a bad argument, a prompt with no content) and an
\* internal error.
E_QUOTA == "429 Resource has been exhausted (e.g. check quota)."
E_OVERLOADED == "503 The model is overloaded. Please try again later."
E_INVALID == "400 Request contains an invalid argument."
E_NO_CONTENT == "400 * GenerateContentRequest.contents: contents is not specified"
E_INTERNAL == "500 An internal error has occurred."

APIErrors == { E_QUOTA, E_OVERLOADED, E_INVALID, E_NO_CONTENT, E_INTERNAL }

APIOutcomes == Responses \cup APIErrors

\* The substrings generate looks for that occur in str(e).lower().
Substrings(e) ==
  CASE e = E_QUOTA -> { "quota", "429" }
    [] e = E_OVERLOADED -> { "overloaded", "503" }
    [] e = E_INVALID -> { "invalid" }
    [] e = E_NO_CONTENT -> { "rate" }
    [] e = E_INTERNAL -> {}

\* `'quota' in error_str or 'rate' in error_str or '429' in error_str`, and so on.
LooksRateLimited(e) == Substrings(e) \cap { "quota", "rate", "429" } # {}
LooksOverloaded(e) == Substrings(e) \cap { "overloaded", "503" } # {}
LooksInvalid(e) == Substrings(e) \cap { "invalid", "too long" } # {}

\* `if attempt < MAX_RETRIES - 1`: the attempts after which generate tries again.
MayRetry(attempt) == attempt < MAX_RETRIES - 1

NewGenerate ==
  [ pc |-> "idle", attempt |-> 0, outcomes |-> << >>, result |-> NONE, exc |-> NONE,
    slept |-> 0 ]

Raised(g, c) == [ g EXCEPT !.pc = "raised", !.exc = c ]

Sleeping(g, seconds) == [ g EXCEPT !.pc = "sleeping", !.slept = @ + seconds ]

\* 2 ** attempt
RECURSIVE Pow2(_)
Pow2(k) == IF k = 0 THEN 1 ELSE 2 * Pow2(k - 1)

\* generate(prompt) up to its first await: attempt 0, the call handed to a thread.
GenerateCall ==
  /\ gen.pc = "idle"
  /\ gen' = [ NewGenerate EXCEPT !.pc = "calling" ]
  /\ UNCHANGED << redis, cache, comment, fetch, ask >>
  /\ UNCHANGED << pipelineVars, managerVars >>

\* `await asyncio.to_thread(model.generate_content, ...)` returns or raises: the rest
\* of the loop body and its handlers, up to the return, the raise or the sleep.
GenerateAttemptReturns ==
  \E o \in APIOutcomes :
    /\ gen.pc = "calling"
    /\ LET g == [ gen EXCEPT !.outcomes = Append(@, o) ]
       IN gen' =
            IF o = "text" THEN [ g EXCEPT !.pc = "returned", !.result = o ]
            ELSE IF o \in Responses THEN Raised(g, "ContentFilteredError")
            ELSE IF LooksRateLimited(o)
            THEN IF MayRetry(g.attempt)
                 THEN Sleeping(g, RETRY_DELAY_SECONDS * Pow2(g.attempt))
                 ELSE Raised(g, "RateLimitError")
            ELSE IF LooksOverloaded(o)
            THEN IF MayRetry(g.attempt)
                 THEN Sleeping(g, RETRY_DELAY_SECONDS)
                 ELSE Raised(g, "ModelOverloadedError")
            ELSE IF LooksInvalid(o) THEN Raised(g, "InvalidPromptError")
            ELSE IF g.attempt = MAX_RETRIES - 1 THEN Raised(g, "GeminiError")
            ELSE Sleeping(g, RETRY_DELAY_SECONDS)
    /\ UNCHANGED << redis, cache, comment, fetch, ask >>
    /\ UNCHANGED << pipelineVars, managerVars >>

\* asyncio.sleep returns: the loop goes round, or ends and generate raises
\* GeminiError("Unexpected error in generate").
GenerateWakes ==
  /\ gen.pc = "sleeping"
  /\ gen' = IF gen.attempt + 1 < MAX_RETRIES
            THEN [ gen EXCEPT !.pc = "calling", !.attempt = @ + 1 ]
            ELSE Raised(gen, "GeminiError")
  /\ UNCHANGED << redis, cache, comment, fetch, ask >>
  /\ UNCHANGED << pipelineVars, managerVars >>

\* ------------------------------------------------------------ specifications
\* The numbers of comments a fetch returns in the runs explored.
CommentCounts ==
  { n \in { 0, MIN_COMMENTS - 1, MIN_COMMENTS, BATCH_SIZE, BATCH_SIZE + 1,
            2 * BATCH_SIZE, PartialThird, 3 * BATCH_SIZE, MaxComments } : n <= MaxComments }

\* A pipeline call about to start: its arguments, and its locals before any assignment.
NewRun(service, n, s, c, i, u, labels) ==
  [ service |-> service, n |-> n, labels |-> labels,
    include_sentiment |-> s, include_classification |-> c,
    include_insights |-> i, include_summary |-> u,
    pc |-> "start", i |-> 0, all_results |-> << >>, summary |-> None, log |-> << >>,
    sentiment_result |-> None, classification_result |-> None,
    insights_result |-> None, summary_result |-> None,
    response |-> None, exc |-> NONE, fetched |-> NONE, thrown |-> NONE,
    llm_calls |-> 0, summary_calls |-> 0, fetch_calls |-> 0,
    insights_calls |-> 0, sample |-> << >>, insights_log |-> NONE,
    sentiment_log |-> << >>, classification_log |-> << >>,
    batches |-> << >>, sentiment_batches |-> << >>, classification_batches |-> << >>,
    stages |-> << >> ]

\* The state after create_job (and, for analyze, with no job in the manager), for a
\* call of one of `services` on a video with one of `counts` comments, which the LLM
\* labels in one of the ways `labellings`.
InitCore(services, counts, flags, labellings) ==
  /\ job = NewJob
  /\ subscribers = << >>
  /\ queues = [ c \in StreamIds |-> << >> ]
  /\ updates = 0
  /\ entered = {}
  /\ regressed = FALSE
  /\ backward = FALSE
  /\ run \in { NewRun(sv, n, f[1], f[2], f[3], f[4], l) :
                 sv \in services, n \in counts, f \in flags, l \in labellings }
  /\ db = [ stored |-> FALSE, usage |-> 0 ]
  /\ streams = [ c \in StreamIds |-> IdleStream ]
  /\ cancels = 0
  /\ cancel_mark = -1
  /\ jobs = NoJobs
  /\ user_jobs = NoUserJobs
  /\ now = 0
  /\ created = 0
  /\ called = [ op |-> "__init__", arg |-> 0, result |-> None ]

\* One job created and nothing else going on in the progress manager.
InitIdle == InitCore({ "run_analysis" }, { MIN_COMMENTS }, { << TRUE, TRUE, TRUE, TRUE >> },
                     { << "positive", "negative", "neutral" >> })

\* The services as constructed: nothing cached, no call made.
InitServices ==
  /\ redis = EmptyRedis
  /\ cache = NewCache
  /\ comment = None
  /\ gen = NewGenerate
  /\ fetch = None
  /\ ask = None

InitLabelled(services, counts, flags, labellings) ==
  /\ InitCore(services, counts, flags, labellings)
  /\ InitServices

InitWith(services, counts, flags) ==
  InitLabelled(services, counts, flags, { << "positive", "negative", "neutral" >> })

AllFlags == BOOLEAN \X BOOLEAN \X BOOLEAN \X BOOLEAN

RunActions ==
  \/ RunStart
  \/ RunAfterSleep
  \/ RunFetchReturns
  \/ RunSentimentReturns
  \/ RunClassifyReturns
  \/ RunInsightsReturns
  \/ RunSummaryReturns

StreamActions ==
  \E c \in StreamIds :
    \/ StreamConnect(c)
    \/ StreamResume(c)
    \/ StreamGet(c)
    \/ StreamDisconnect(c)

\* The job of one background run, with cancel requests arriving at any await.
Init == InitWith({ "run_analysis" }, { MIN_COMMENTS - 1, MIN_COMMENTS, BATCH_SIZE + 1 }, AllFlags)

Next ==
  \/ RunActions
  \/ CancelActiveAnalysis(MaxCancels)

Spec == Init /\ [][Next]_vars

\* One call of either coordinator, for every combination of flags and every count.
InitPipeline == InitLabelled({ "run_analysis", "analyze" }, CommentCounts, AllFlags, Labellings)

NextPipeline ==
  \/ RunActions
  \/ AnalyzeStart
  \/ AnalyzeFetchReturns
  \/ AnalyzeSentimentReturns
  \/ AnalyzeClassifyReturns
  \/ AnalyzeInsightsReturns
  \/ AnalyzeSummaryReturns

SpecPipeline == InitPipeline /\ [][NextPipeline]_vars

\* A job that is cancelled over and over while streams are open: the fan-out on
\* queues that fill up.  Once the first cancel request has been handled, the next
\* BurstCancels - 1 follow it with no other event in between; before and after the
\* burst every interleaving is explored.
InitQueue == InitWith({ "run_analysis" }, { MIN_COMMENTS - 1 }, { << TRUE, TRUE, TRUE, TRUE >> })

InBurst == 0 < cancels /\ cancels < BurstCancels

NextQueue ==
  \/ ~InBurst /\ RunStart
  \/ ~InBurst /\ RunAfterSleep
  \/ ~InBurst /\ RunFetchReturns
  \/ CancelActiveAnalysis(BurstCancels + MaxCancelsQueue)
  \/ ~InBurst /\ StreamActions

SpecQueue == InitQueue /\ [][NextQueue]_vars

\* The progress manager under its callers: jobs are created and finish, time passes,
\* and cleanup_old_jobs and get_active_job_for_user are called at any moment.
InitManager == InitWith({ "run_analysis" }, { MIN_COMMENTS }, { << TRUE, TRUE, TRUE, TRUE >> })

NextManager ==
  \/ CreateJob
  \/ JobUpdateStep
  \/ Tick
  \/ CleanupOldJobs
  \/ GetActiveJob

SpecManager == InitManager /\ [][NextManager]_vars

\* The progress manager in the running process: lifespan creates no task for
\* start_cleanup_loop, so no turn of the loop is ever taken.  Time keeps passing and
\* requests keep arriving.
NextProcess ==
  \/ CreateJob
  \/ JobUpdateStep
  \/ Tick
  \/ GetActiveJob

SpecProcess ==
  /\ InitManager
  /\ [][NextProcess]_vars
  /\ WF_vars(Tick)
  /\ WF_vars(GetActiveJob)
  /\ WF_vars(CleanupLoopTurn)

\* One CacheService over a Redis that holds, under each key, nothing, a value stored
\* by an earlier set, or a string that is no JSON; Redis commands can fail and keys
\* expire at any moment.
StoredEntries ==
  { None,
    Some([ value |-> Dumps(V_PLAIN), ttl |-> CacheTTL_MEDIUM ]),
    Some([ value |-> NOT_JSON, ttl |-> CacheTTL_MEDIUM ]) }

InitCache ==
  /\ InitIdle
  /\ redis \in [ CacheKeyNames -> StoredEntries ]
  /\ cache = NewCache
  /\ comment = None
  /\ gen = NewGenerate
  /\ fetch = None
  /\ ask = None

NextCache ==
  \/ GetOrSetCall
  \/ GetOrSetFactoryReturns
  \/ GetOrSetSetReturns
  \/ RedisExpire

SpecCache == InitCache /\ [][NextCache]_vars

\* One AnalysisJob called in every way: any step with any keyword arguments.
InitUpdate ==
  /\ InitServices
  /\ run = NewRun("run_analysis", MIN_COMMENTS, TRUE, TRUE, TRUE, TRUE,
                  << "positive", "negative", "neutral" >>)
  /\ db = [ stored |-> FALSE, usage |-> 0 ]
  /\ streams = [ c \in StreamIds |-> IdleStream ]
  /\ cancels = 0
  /\ cancel_mark = -1
  /\ jobs = NoJobs
  /\ user_jobs = NoUserJobs
  /\ now = 0
  /\ created = 0
  /\ called = [ op |-> "__init__", arg |-> 0, result |-> None ]
  /\ regressed = FALSE
  /\ backward = FALSE
  /\ job = NewJob
  /\ subscribers = << >>
  /\ queues = [ c \in StreamIds |-> << >> ]
  /\ updates = 0
  /\ entered = {}

NextUpdate == UpdateStepCall

SpecUpdate == InitUpdate /\ [][NextUpdate]_vars

\* The sentiment stage alone in either coordinator, for every count and labelling,
\* with payloads that may carry no per-item result.
SentimentOnly == { << TRUE, FALSE, FALSE, FALSE >> }

\* A labelling more, under which no comment is positive.
LabellingsWithTies == Labellings \cup { << "mixed", "neutral", "negative" >> }

InitSentiment ==
  InitLabelled({ "run_analysis", "analyze" }, CommentCounts, SentimentOnly,
               LabellingsWithTies)

NextSentiment ==
  \/ RunStart
  \/ RunAfterSleep
  \/ RunFetchReturns
  \/ RunSentimentReturnsWith(SentimentOutcomes)
  \/ AnalyzeStart
  \/ AnalyzeFetchReturns
  \/ AnalyzeSentimentReturnsWith(SentimentOutcomes)

SpecSentiment == InitSentiment /\ [][NextSentiment]_vars

\* fetch_comments scoring one comment after another, each an arbitrary comment_data.
InitScore ==
  /\ InitIdle
  /\ redis = EmptyRedis
  /\ cache = NewCache
  /\ comment = Scored(PlainComment)
  /\ gen = NewGenerate
  /\ fetch = None
  /\ ask = None

NextScore == ScoreComment

SpecScore == InitScore /\ [][NextScore]_vars

\* One generate call against an API that answers each attempt in any way; the
\* thread returns and the sleeps end.
InitGemini == InitIdle /\ InitServices

NextGemini ==
  \/ GenerateCall
  \/ GenerateAttemptReturns
  \/ GenerateWakes

SpecGemini ==
  /\ InitGemini
  /\ [][NextGemini]_vars
  /\ WF_vars(GenerateAttemptReturns)
  /\ WF_vars(GenerateWakes)

\* One background run with the insights stage enabled, on videos with fewer comments
\* than the sample takes, exactly as many, and more.
InsightCounts == { MIN_COMMENTS, INSIGHTS_SAMPLE - 1, INSIGHTS_SAMPLE, INSIGHTS_SAMPLE + 1,
                   MaxComments }

InsightFlags == { << FALSE, FALSE, TRUE, FALSE >>, << TRUE, TRUE, TRUE, TRUE >> }

InitInsights == InitWith({ "run_analysis" }, InsightCounts, InsightFlags)

NextInsights == RunActions

SpecInsights == InitInsights /\ [][NextInsights]_vars

\* The selection of fetch_comments on its own.
InitFetch == InitIdle /\ InitServices

NextFetch == FetchComments

SpecFetch == InitFetch /\ [][NextFetch]_vars

\* The content-request miner on its own.
InitRequests == InitIdle /\ InitServices

NextRequests == ExtractContentRequestsCall

SpecRequests == InitRequests /\ [][NextRequests]_vars

\* The question grouping on its own.
InitQuestions == InitIdle /\ InitServices

NextQuestions == GroupSimilarQuestionsCall

SpecQuestions == InitQuestions /\ [][NextQuestions]_vars

\* The superfan ranking on its own.
InitSuperfans == InitIdle /\ InitServices

NextSuperfans == IdentifySuperfansCall

SpecSuperfans == InitSuperfans /\ [][NextSuperfans]_vars

\* ------------------------------------------------------------------- properties
Subscribed == { subscribers[k] : k \in DOMAIN subscribers }

Returned == run.pc = "returned" /\ run.response # None

\* ceil(n / BATCH_SIZE): the number of slices comments[i:i + BATCH_SIZE] of n comments.
NumBatches(n) == (n + BATCH_SIZE - 1) \div BATCH_SIZE

\* The comments of the batches whose call succeeded, in batch order, for the outcomes
\* `log` of the calls made for batches 1 .. Len(log) of n comments.
RECURSIVE ConcatSucceeded(_, _)
ConcatSucceeded(log, n) ==
  IF log = << >> THEN << >>
  ELSE LET k == Len(log)
       IN  ConcatSucceeded(SubSeq(log, 1, k - 1), n)
             \o (IF log[k] = "ok" THEN Batch((k - 1) * BATCH_SIZE, n) ELSE << >>)

\* C1, as stated: once the job's step is COMPLETED or FAILED, no later operation
\* changes its step or its status, whatever the interleaving of run_analysis with
\* cancel requests.  run_analysis goes on calling update_step after a cancel request
\* has set FAILED, so this does not hold.
C1_TerminalStepIsFinal ==
  [][ job.step \in TerminalSteps => job'.step = job.step /\ job'.status = job.status ]_vars

C4_ProgressMonotone ==
  /\ job.progress \in 0 .. 100
  /\ ~regressed
  /\ job.step = COMPLETED => job.progress = 100

\* C4's case: a job cancelled after it had made progress, and completed afterwards.
C4_Witness ==
  /\ cancels > 0
  /\ cancel_mark > 0
  /\ job.step = COMPLETED
  /\ job.progress = 100

\* What a subscriber has been sent: no more snapshots than update_step calls since
\* it subscribed.
AtMostOnePerUpdate ==
  \A c \in Subscribed :
    streams[c].received + Len(queues[c]) <= updates - streams[c].sub_at

\* C5, as stated: a subscriber receives at most one snapshot per update_step call
\* made after it subscribed, and when update_step is called with a terminal step the
\* terminal snapshot is placed on the queue of every subscriber still subscribed.
\* The snapshot is dropped for a subscriber whose queue is full.
C5_TerminalSnapshotQueued ==
  /\ []AtMostOnePerUpdate
  /\ [][ (updates' > updates /\ job'.step \in TerminalSteps) =>
           \A c \in Subscribed :
             /\ Len(queues'[c]) > Len(queues[c])
             /\ queues'[c][Len(queues'[c])] = GetProgress(job') ]_vars

\* C5, amended: a subscriber receives at most one snapshot per update_step call made
\* after it subscribed, and when update_step is called with a terminal step the
\* terminal snapshot is placed last on the queue of every subscriber still
\* subscribed whose queue has room for the snapshots of the call.
C5_TerminalSnapshotQueuedIfRoom ==
  /\ []AtMostOnePerUpdate
  /\ [][ (updates' > updates /\ job'.step \in TerminalSteps) =>
           \A c \in Subscribed :
             Len(queues[c]) + (updates' - updates) <= QUEUE_MAXSIZE =>
               /\ Len(queues'[c]) = Len(queues[c]) + (updates' - updates)
               /\ queues'[c][Len(queues'[c])] = GetProgress(job') ]_vars

\* C5's case: a subscriber that has been sent 49 snapshots holds the terminal one as
\* the last of its queue, which it fills.
C5_Witness ==
  \E c \in Subscribed :
    /\ Len(queues[c]) = QUEUE_MAXSIZE
    /\ streams[c].received + Len(queues[c]) = updates - streams[c].sub_at
    /\ queues[c][QUEUE_MAXSIZE] = GetProgress(job)
    /\ job.step \in TerminalSteps

\* C6: every subscriber queue holds at most 50 snapshots; an update_step call leaves
\* a full queue as it is and still pushes to every other subscriber, and the job's
\* state change takes place all the same.
C6_FullQueueDropsOnly ==
  /\ [](\A c \in StreamIds : Len(queues[c]) <= QUEUE_MAXSIZE)
  /\ [][ updates' > updates =>
           /\ \A c \in Subscribed :
                IF Len(queues[c]) = QUEUE_MAXSIZE
                THEN queues'[c] = queues[c]
                ELSE /\ Len(queues'[c]) > Len(queues[c])
                     /\ Len(queues[c]) + (updates' - updates) <= QUEUE_MAXSIZE =>
                          queues'[c][Len(queues'[c])] = GetProgress(job')
           /\ job'.step \in entered'
           /\ cancels' > cancels =>
                /\ job'.step = FAILED
                /\ job'.status = "failed"
                /\ job'.error = "Analysis cancelled by user" ]_vars

\* C6's case: one subscriber's queue is full and has lost an update, while another
\* subscriber holds every update made since it subscribed.
C6_Witness ==
  \E c1, c2 \in Subscribed :
    /\ Len(queues[c1]) = QUEUE_MAXSIZE
    /\ streams[c1].received + Len(queues[c1]) < updates - streams[c1].sub_at
    /\ Len(queues[c2]) \in 1 .. QUEUE_MAXSIZE - 1
    /\ streams[c2].received + Len(queues[c2]) = updates - streams[c2].sub_at
    /\ queues[c2][Len(queues[c2])] = GetProgress(job)

\* C7, as stated: a progress stream ends once it has delivered a terminal snapshot,
\* be it the current state sent on connect or a pushed update: it is not left
\* waiting for a further update, it sends no data event afterwards, and its queue is
\* unsubscribed when it has ended.  A stream that connects to a job already terminal
\* sends the terminal snapshot and then waits on its queue.
C7_StreamEndsAtTerminal ==
  \A c \in StreamIds :
    /\ streams[c].pc = "waiting" => ~streams[c].terminal_seen
    /\ ~streams[c].late_data
    /\ streams[c].pc \in { "done", "closed" } => c \notin Subscribed

\* C8, as stated: after a cancel request on a running job, run_analysis issues no
\* LLM call beyond the one in flight at the time of the request.  run_analysis never
\* looks at the job's state, so every later call is still issued.
C8_NoCallAfterCancel ==
  cancel_mark # -1 => run.llm_calls = cancel_mark

C10_SummaryNeedsBoth ==
  LET all == run.include_summary /\ run.include_sentiment /\ run.include_classification
  IN  /\ run.summary_calls <= 1
      /\ run.summary_calls = 1 => all
      /\ (Returned /\ run.response[1].status = "completed") => (run.summary_calls = 1 <=> all)
      /\ ~(run.include_sentiment /\ run.include_classification) =>
           /\ GENERATING_SUMMARY \notin entered
           /\ run.response # None => run.response[1].executive_summary = None

\* C10's case: a call asked for a summary without sentiment, and completed.
C10_Witness ==
  /\ Returned
  /\ run.response[1].status = "completed"
  /\ run.include_summary /\ ~run.include_sentiment /\ run.include_classification
  /\ run.summary_calls = 0
  /\ run.llm_calls > 0
  /\ run.response[1].executive_summary = None

\* The jobs the manager holds that have finished.
Finished(id) == id \in DOMAIN jobs /\ jobs[id].status \in { "completed", "failed" }

\* How many times analysis id `id` occurs in the list `ids`.
Occurrences(id, ids) == Cardinality({ k \in DOMAIN ids : ids[k] = id })

\* C15, as stated: the sweep runs every 5 minutes while the process runs, so a job
\* that has finished and is older than the 30-minute retention window is eventually
\* removed from the id-index and from the owner-index.  No task runs
\* start_cleanup_loop, so such a job stays in both for as long as the process lives.
C15_FinishedJobsSwept ==
  \A id \in JobIds :
    (Finished(id) /\ jobs[id].created_at < now - MAX_AGE_MINUTES)
      ~> (/\ id \notin DOMAIN jobs
          /\ \A u \in DOMAIN user_jobs : Occurrences(id, user_jobs[u]) = 0)

\* C16: cleanup_old_jobs(max_age) removes from the id-index and from the owner-index
\* exactly the jobs whose status is completed or failed and whose creation time is
\* before now minus max_age; every other job, a processing one of any age and a
\* finished one inside the window, stays in both indices as it was.
C16_CleanupRemovesExactly ==
  [][ called'.op = "cleanup_old_jobs" =>
        LET gone == { id \in DOMAIN jobs :
                        Finished(id) /\ jobs[id].created_at < now - called'.arg }
        IN /\ DOMAIN jobs' = DOMAIN jobs \ gone
           /\ \A id \in DOMAIN jobs' : jobs'[id] = jobs[id]
           /\ DOMAIN user_jobs' = DOMAIN user_jobs
           /\ \A u \in DOMAIN user_jobs :
                user_jobs'[u] = SelectSeq(user_jobs[u], LAMBDA jid : jid \notin gone) ]_vars

\* C16's case: a sweep with the 30-minute window has removed a job and left an old
\* processing job and a finished job inside the window.
C16_Witness ==
  /\ called.op = "cleanup_old_jobs"
  /\ called.arg = MAX_AGE_MINUTES
  /\ \E id \in 1 .. created : id \notin DOMAIN jobs
  /\ \E id \in DOMAIN jobs :
       jobs[id].status = "processing" /\ jobs[id].created_at < now - MAX_AGE_MINUTES
  /\ \E id \in DOMAIN jobs :
       Finished(id) /\ jobs[id].created_at >= now - MAX_AGE_MINUTES

\* The id-index and the owner-index name the same jobs: an id held by the id-index
\* occurs once in its owner's list and in no other list, and any other id in none.
IndicesAgree ==
  /\ \A id \in DOMAIN jobs : jobs[id].user_id \in DOMAIN user_jobs
  /\ \A id \in JobIds : \A u \in DOMAIN user_jobs :
       Occurrences(id, user_jobs[u]) =
         IF id \in DOMAIN jobs /\ jobs[id].user_id = u THEN 1 ELSE 0

\* C18: create_job returns a job at step QUEUED with progress 0 and status
\* "processing" and registers it, and after any sequence of create_job calls with
\* distinct ids and cleanup_old_jobs calls the id-index and the owner-index agree.
C18_IndicesAgree ==
  /\ []IndicesAgree
  /\ [][ created' = created + 1 =>
           /\ called'.op = "create_job"
           /\ called'.result # None
           /\ called'.result[1].step = QUEUED
           /\ called'.result[1].progress = 0
           /\ called'.result[1].status = "processing"
           /\ called'.arg \notin DOMAIN jobs
           /\ jobs'[called'.arg] = called'.result[1] ]_vars

\* C18's case: a job is created after a sweep has removed another job of the owner.
C18_Witness ==
  /\ called.op = "create_job"
  /\ \E id \in 1 .. created :
       /\ id \notin DOMAIN jobs
       /\ jobs[called.arg].user_id \in DOMAIN user_jobs
       /\ Len(user_jobs[jobs[called.arg].user_id]) = 2

\* C19: get_active_job_for_user(u) returns a job of owner u whose status is
\* "processing" and whose creation time is the latest among u's processing jobs, and
\* None when u has no processing job.
C19_ActiveJobIsLatestProcessing ==
  called.op = "get_active_job_for_user" =>
    LET active == { id \in DOMAIN jobs :
                      jobs[id].user_id = called.arg /\ jobs[id].status = "processing" }
    IN IF active = {} THEN called.result = None
       ELSE /\ called.result # None
            /\ called.result[1] \in active
            /\ \A id \in active : jobs[id].created_at <= jobs[called.result[1]].created_at

\* C19's case: the owner has an older processing job and a newer finished job besides
\* the job returned.
C19_Witness ==
  /\ called.op = "get_active_job_for_user"
  /\ called.result # None
  /\ \E id \in DOMAIN jobs :
       /\ jobs[id].user_id = called.arg
       /\ jobs[id].status = "processing"
       /\ jobs[id].created_at < jobs[called.result[1]].created_at
  /\ \E id \in DOMAIN jobs :
       /\ jobs[id].user_id = called.arg
       /\ Finished(id)

\* Every call of a finished batched stage raised GeminiError.
AllFailed(log) == log # << >> /\ \A k \in DOMAIN log : log[k] = "GeminiError"

C12_StepsOnlyForward ==
  /\ ~backward
  /\ \A step \in entered : StepIndex(step) <= StepIndex(job.step) \/ job.step = FAILED

\* C12's case: a run that went through every stage and completed.
C12_Witness ==
  /\ job.step = COMPLETED
  /\ updates >= Len(AnalysisStep) - 2
  /\ entered = Steps \ { QUEUED, FAILED }

\* The batch of rank k (from 1) of n comments: comments 50(k-1) .. min(50k, n) - 1,
\* as ids from 1.
ExpectedBatch(k, n) ==
  [ j \in 1 .. (Min(BATCH_SIZE * k, n) - BATCH_SIZE * (k - 1)) |-> BATCH_SIZE * (k - 1) + j ]

\* The batches cut n comments into consecutive runs: the first starts at comment 1,
\* each next one where the one before stopped, and the last stops at comment n.
Partition(batches, n) ==
  /\ batches # << >>
  /\ batches[1][1] = 1
  /\ batches[Len(batches)][Len(batches[Len(batches)])] = n
  /\ \A k \in DOMAIN batches :
       /\ Len(batches[k]) \in 1 .. BATCH_SIZE
       /\ batches[k][Len(batches[k])] = batches[k][1] + Len(batches[k]) - 1
       /\ k > 1 => batches[k][1] = batches[k - 1][Len(batches[k - 1])] + 1

\* C13: for n comments each batched stage issues exactly ceil(n/50) LLM calls, the
\* k-th (from 0) for comments 50k .. min(50k+49, n-1) in ranked order, so that every
\* comment is in exactly one batch.
C13_BatchesPartition ==
  /\ run.sentiment_result # None =>
       /\ Len(run.sentiment_batches) = NumBatches(run.n)
       /\ \A k \in DOMAIN run.sentiment_batches :
            run.sentiment_batches[k] = ExpectedBatch(k, run.n)
       /\ Partition(run.sentiment_batches, run.n)
  /\ run.classification_result # None =>
       /\ Len(run.classification_batches) = NumBatches(run.n)
       /\ \A k \in DOMAIN run.classification_batches :
            run.classification_batches[k] = ExpectedBatch(k, run.n)
       /\ Partition(run.classification_batches, run.n)

\* C13's case: 120 comments went out in three batches, the last of 20 comments.
C13_Witness ==
  /\ run.n = PartialThird
  /\ run.classification_result # None
  /\ Len(run.sentiment_batches) = 3
  /\ Len(run.classification_batches) = 3
  /\ Len(run.classification_batches[3]) = PartialThird - 2 * BATCH_SIZE

\* C14, as stated: in every COMPLETED result that holds a sentiment result the
\* positive, negative, neutral and mixed percentages add up to exactly 100 (1000
\* tenths).  The fallback rounds each percentage on its own, and three equal shares
\* of 33.3 add up to 99.9.
C14_PercentagesSumTo100 ==
  (Returned /\ run.response[1].status = "completed" /\ run.response[1].sentiment # None) =>
    LET summary == run.response[1].sentiment[1].summary
    IN summary.positive_percentage + summary.negative_percentage
         + summary.neutral_percentage + summary.mixed_percentage = 1000

\* C17: when fetch_comments raises a not-found, comments-disabled, quota-exceeded or
\* invalid-id error, run_analysis has called the video source once, makes no LLM
\* call, moves the job straight to FAILED with a non-empty error, and returns a
\* FAILED result.
C17_FetchErrorFailsJob ==
  (run.service = "run_analysis" /\ run.fetched \in YouTubeErrors) =>
    /\ run.fetch_calls = 1
    /\ run.llm_calls = 0
    /\ job.step = FAILED
    /\ job.status = "failed"
    /\ job.error \notin { NONE, "" }
    /\ entered = { CONNECTING, FETCHING_VIDEO, FETCHING_COMMENTS, FAILED }
    /\ Returned
    /\ run.response[1].status = "failed"
    /\ run.response[1].error \notin { NONE, "" }

\* C17's case: the fetch raised QuotaExceededError.
C17_Witness ==
  /\ run.service = "run_analysis"
  /\ run.fetched = "QuotaExceededError"
  /\ Returned
  /\ job.error = "YouTube API quota exceeded"

\* C20, as stated: when fetch_comments raises VideoNotFoundError, analyze raises
\* VideoNotFoundError to its caller instead of returning a result.  The handler that
\* closes analyze catches it and a FAILED result is returned.
C20_AnalyzeRaisesNotFound ==
  (run.service = "analyze" /\ run.fetched = "VideoNotFoundError") =>
    /\ run.pc = "raised"
    /\ run.exc = "VideoNotFoundError"
    /\ run.response = None

\* What get_or_set owes once the factory has been called: exactly one call, the
\* factory's value returned, None when the factory returned None or raised.
FactoryCalledOnce ==
  /\ cache.factory_calls = 1
  /\ cache.result = IF cache.factory \in FactoryValues THEN cache.factory ELSE NONE

\* The entry set(key, value, ttl) leaves in Redis.
EntryFor(value, ttl) == Some([ value |-> Dumps(value), ttl |-> ttl ])

\* C21 (as stated): get_or_set returns the cached value without calling the factory
\* whenever the key is present in Redis; on a miss it calls the factory exactly once,
\* stores a non-null result under the key with the given ttl and returns it; it never
\* raises, and returns None when the factory fails.
C21_GetOrSetContract ==
  /\ cache.pc # "raised"
  /\ cache.pc = "returned" =>
       IF cache.entry # None
       THEN /\ cache.factory_calls = 0
            /\ cache.result = Loads(cache.entry[1].value)
       ELSE /\ FactoryCalledOnce
            /\ cache.factory \in FactoryValues =>
                 cache.after = EntryFor(cache.factory, cache.ttl)

\* The key was present, the Redis read answered, and the string decoded.
ReadHit ==
  /\ cache.entry # None
  /\ cache.read = "ok"
  /\ Loads(cache.entry[1].value) # "JSONDecodeError"

\* C21 (amended): get_or_set returns the decoded cached value without calling the
\* factory when the key is present, the Redis read succeeds and the stored string is
\* valid JSON; in every other case it calls the factory exactly once and returns its
\* result, and a non-null result is stored under the key with the given ttl when the
\* Redis write succeeds; it never raises, and returns None when the factory fails.
C21_GetOrSetWhenRedisAnswers ==
  /\ cache.pc # "raised"
  /\ cache.pc = "returned" =>
       IF ReadHit
       THEN /\ cache.factory_calls = 0
            /\ cache.result = Loads(cache.entry[1].value)
       ELSE /\ FactoryCalledOnce
            /\ cache.factory \in FactoryValues /\ cache.written = "ok" =>
                 cache.after = EntryFor(cache.factory, cache.ttl)
            /\ cache.factory \notin FactoryValues => cache.written = NONE

\* A miss whose factory value, a dict holding a datetime, was stored and returned, on
\* a service that had answered an earlier call from the cache.
C21_Witness ==
  /\ cache.pc = "returned"
  /\ cache.entry = None
  /\ cache.factory = V_DATETIME
  /\ cache.after = EntryFor(V_DATETIME, cache.ttl)
  /\ cache.stats.hits = 1

\* The next comment scored differs from the last one in likes and replies only,
\* neither of them lower.
SameButLikesAndReplies ==
  /\ comment'.is_question = comment.is_question
  /\ comment'.is_feedback = comment.is_feedback
  /\ comment'.word_count = comment.word_count
  /\ comment'.like_count >= comment.like_count
  /\ comment'.reply_count >= comment.reply_count

STAGES == << "sentiment", "classify", "insights", "summary" >>

StageIndex(at) == CHOOSE k \in 1 .. Len(STAGES) : STAGES[k] = at

StageStep(at) ==
  CASE at = "sentiment" -> ANALYZING_SENTIMENT
    [] at = "classify" -> CLASSIFYING
    [] at = "insights" -> EXTRACTING_INSIGHTS
    [] at = "summary" -> GENERATING_SUMMARY

StageRequested(r, at) ==
  CASE at = "sentiment" -> r.include_sentiment
    [] at = "classify" -> r.include_classification
    [] at = "insights" -> r.include_insights
    [] at = "summary" -> r.include_summary

\* C23: the stages of run_analysis make their LLM calls in the order sentiment,
\* classification, insights, summary; a stage that is not requested makes no call,
\* and a run that completes has called every requested stage (the summary when
\* sentiment and classification ran too); update_step was called with a stage's step
\* before the stage's first call, so while a call of the stage is in flight and no
\* cancel request has been handled, job.step is that stage's step.
C23_StagesInOrder ==
  /\ \A k \in 1 .. Len(run.stages) - 1 :
       StageIndex(run.stages[k]) < StageIndex(run.stages[k + 1])
  /\ \A k \in 1 .. Len(run.stages) :
       /\ StageRequested(run, run.stages[k])
       /\ StageStep(run.stages[k]) \in entered
  /\ run.pc = "returned" /\ cancels = 0 /\ job.step = COMPLETED =>
       \A k \in 1 .. Len(STAGES) :
         ( /\ StageRequested(run, STAGES[k])
           /\ STAGES[k] = "summary" => SummaryEnabled(run) )
         => \E m \in 1 .. Len(run.stages) : run.stages[m] = STAGES[k]
  /\ run.pc \in { STAGES[k] : k \in 1 .. Len(STAGES) } /\ cancels = 0 =>
       job.step = StageStep(run.pc)

\* The summary call is in flight after calls of the three earlier stages.
C23_Witness ==
  /\ run.pc = "summary"
  /\ run.stages = STAGES
  /\ cancels = 0
  /\ job.step = GENERATING_SUMMARY

\* The call for the last batch returned a payload.
LastBatchSucceeded(log) == log # << >> /\ log[Len(log)] \in { "ok", "ok_empty" }

\* C24: the sentiment summary of a finished stage is the one of an LLM payload
\* exactly when the call for the last batch succeeded, and then it is that payload's
\* summary; when the last batch failed and an earlier batch brought per-item results,
\* the summary is recomputed from the per-item results of all successful batches.
\* AnalysisService._analyze_sentiment tests `not all_comment_sentiments` first and
\* drops the payload's summary when no per-item result was gathered.
C24_SummaryFromLastBatch ==
  run.sentiment_result # None /\ run.sentiment_log # << >> =>
    LET summary == run.sentiment_result[1].summary
        results == ConcatSucceeded(run.sentiment_log, run.n)
    IN /\ summary.source = "payload" <=> LastBatchSucceeded(run.sentiment_log)
       /\ LastBatchSucceeded(run.sentiment_log) => summary = PayloadSummary
       /\ ~LastBatchSucceeded(run.sentiment_log) /\ results # << >> =>
            summary = FallbackSummary(results, run.labels)

\* The percentage a summary reports for the k-th sentiment, in tenths of a percent.
PercentageOf(summary, k) ==
  CASE k = 1 -> summary.positive_percentage
    [] k = 2 -> summary.negative_percentage
    [] k = 3 -> summary.neutral_percentage
    [] k = 4 -> summary.mixed_percentage

\* C25: in the sentiment fallback each category's percentage is its count divided by
\* the number of per-item results (as a percentage, to the nearest tenth), and
\* dominant_sentiment is a category with the greatest count, the first such category
\* in the order positive, negative, neutral, mixed.
C25_FallbackByCounting ==
  run.sentiment_result # None /\ run.sentiment_result[1].summary.source = "fallback" =>
    LET summary == run.sentiment_result[1].summary
        results == run.sentiment_result[1].comments
        total == Len(results)
        count(k) == Cardinality({ m \in 1 .. total :
                                    Label(run.labels, results[m]) = SENTIMENTS[k] })
        off(k) == PercentageOf(summary, k) * total - 1000 * count(k)
        dominant == CHOOSE k \in 1 .. 4 : SENTIMENTS[k] = summary.dominant_sentiment
    IN /\ total > 0
       /\ \A k \in 1 .. 4 : 2 * off(k) <= total /\ -2 * off(k) <= total
       /\ \A k \in 1 .. 4 : count(k) <= count(dominant)
       /\ \A k \in 1 .. dominant - 1 : count(k) < count(dominant)

\* A fallback over 150 results, 50 each mixed, neutral and negative and none
\* positive: the three-way tie goes to negative, and each share is 33.3.
C25_Witness ==
  /\ run.sentiment_result # None
  /\ run.sentiment_result[1].summary.source = "fallback"
  /\ Len(run.sentiment_result[1].comments) = 3 * BATCH_SIZE
  /\ run.labels = << "mixed", "neutral", "negative" >>
  /\ run.sentiment_result[1].summary.dominant_sentiment = "negative"
  /\ run.sentiment_result[1].summary.mixed_percentage = 333

\* The step just taken is a call update_step(step, **patch).
UpdateStepCalled == updates' = updates + 1 /\ called'.op = "AnalysisJob.update_step"

\* The sum of the weights of the steps strictly before each step, from STEP_WEIGHTS.
WeightBefore(step) ==
  CASE step = QUEUED -> 0
    [] step = CONNECTING -> 0
    [] step = FETCHING_VIDEO -> 2
    [] step = FETCHING_COMMENTS -> 2 + 5
    [] step = ANALYZING_SENTIMENT -> 2 + 5 + 15
    [] step = CLASSIFYING -> 2 + 5 + 15 + 25
    [] step = EXTRACTING_INSIGHTS -> 2 + 5 + 15 + 25 + 20
    [] step = GENERATING_SUMMARY -> 2 + 5 + 15 + 25 + 20 + 15
    [] step = SAVING -> 2 + 5 + 15 + 25 + 20 + 15 + 10

\* C26: after update_step(s) for a non-terminal step s, progress is the sum of the
\* weights of the steps strictly before s, capped at 97; a call lifts progress above
\* 97 only when its step is COMPLETED.
C26_ProgressIsWeightBefore ==
  [][ UpdateStepCalled =>
        /\ called'.arg.step \notin TerminalSteps =>
             /\ job'.progress = Min(WeightBefore(called'.arg.step), PROGRESS_CAP)
             /\ job'.progress <= PROGRESS_CAP
        /\ job'.progress > PROGRESS_CAP /\ job'.progress # job.progress =>
             called'.arg.step = COMPLETED /\ job'.progress = 100 ]_vars

\* update_step(SAVING) has followed update_step(COMPLETED): progress is back at 92.
C26_Witness ==
  /\ called.op = "AnalysisJob.update_step"
  /\ called.arg.step = SAVING
  /\ COMPLETED \in entered
  /\ job.progress = 92

\* C27: update_step(FAILED, error=m) leaves progress at the value it had before the
\* call, sets status to "failed" and error to m.
C27_FailedKeepsProgress ==
  [][ ( /\ UpdateStepCalled
        /\ called'.arg.step = FAILED
        /\ "error" \in DOMAIN called'.arg.patch )
      => /\ job'.progress = job.progress
         /\ job'.status = "failed"
         /\ job'.error = called'.arg.patch.error
         /\ job'.step = FAILED ]_vars

\* update_step(FAILED, error=...) on a job that had reached CLASSIFYING: progress 47.
C27_Witness ==
  /\ called.op = "AnalysisJob.update_step"
  /\ called.arg.step = FAILED
  /\ "error" \in DOMAIN called.arg.patch
  /\ entered = { CLASSIFYING, FAILED }
  /\ job.progress = 47
  /\ job.status = "failed"

\* The metadata fields of a job, which update_step takes as keyword arguments.
MetadataFields ==
  { "video_id", "video_title", "video_thumbnail", "comments_fetched", "total_comments",
    "error" }

\* C29: update_step sets a metadata field to the value the call supplies for it, and
\* leaves every metadata field the call does not supply at its previous value.
C29_AbsentFieldsKept ==
  [][ UpdateStepCalled =>
        \A f \in MetadataFields :
          IF f \in DOMAIN called'.arg.patch
          THEN job'[f] = called'.arg.patch[f]
          ELSE job'[f] = job[f] ]_vars

\* A call that supplies video_title alone, on a job whose three video fields were
\* set by the call before: the title is new, id and thumbnail are the old ones.
C29_Witness ==
  /\ called.op = "AnalysisJob.update_step"
  /\ DOMAIN called.arg.patch = { "video_title" }
  /\ job.video_title = "renamed"
  /\ job.video_id = "vid"
  /\ job.video_thumbnail = "thumb"

\* C28: every update_step call pushes exactly one snapshot to each queue that is
\* subscribed at that moment and not full, and none to any other queue; the snapshot
\* is the job's state after the call's mutation; a queue holds its snapshots in the
\* order of the calls: they are added at its end and taken from its front.  (A step
\* of the pipeline can make several calls in a row; the last snapshot is then the
\* job's state after the last call.)
C28_OneSnapshotPerUpdate ==
  [][ \A c \in StreamIds :
        LET calls == updates' - updates
            room == QUEUE_MAXSIZE - Len(queues[c])
            pushed == Min(calls, room)
        IN IF calls > 0 /\ c \in Subscribed
           THEN /\ Len(queues'[c]) = Len(queues[c]) + pushed
                /\ SubSeq(queues'[c], 1, Len(queues[c])) = queues[c]
                /\ pushed = calls => queues'[c][Len(queues'[c])] = GetProgress(job')
                /\ calls = 1 /\ room > 0 => queues'[c] = Append(queues[c], GetProgress(job'))
           ELSE \/ queues'[c] = queues[c]
                \/ queues[c] # << >> /\ queues'[c] = Tail(queues[c])
                \/ queues'[c] = << >> ]_vars

\* Two subscribed queues after a cancel request: one is full and was left alone, the
\* other holds the cancelled job's snapshot as its newest entry.
C28_Witness ==
  /\ Subscribed = StreamIds
  /\ cancels > 0
  /\ job.step = FAILED
  /\ \E c, d \in StreamIds :
       /\ Len(queues[c]) = QUEUE_MAXSIZE
       /\ queues[d] # << >>
       /\ Len(queues[d]) < QUEUE_MAXSIZE
       /\ queues[d][Len(queues[d])] = GetProgress(job)

\* The kind of failure each API error is: what the request did wrong, or what state
\* the service was in.
ErrorKind(e) ==
  CASE e = E_QUOTA -> "rate-limited"
    [] e = E_OVERLOADED -> "overloaded"
    [] e = E_INVALID -> "invalid-prompt"
    [] e = E_NO_CONTENT -> "invalid-prompt"
    [] e = E_INTERNAL -> "internal"
    [] OTHER -> "response"

GenerateEnded == gen.pc \in { "returned", "raised" }

\* The k-th attempt was the last one, and generate raised c after it.
RaisedAfter(k, c) == Len(gen.outcomes) = k /\ gen.pc = "raised" /\ gen.exc = c

\* C30: generate ends after at most MAX_RETRIES attempts whatever the API does; a
\* safety-filtered response or an invalid-prompt error is raised after the attempt
\* that produced it, with no further attempt; a rate-limit or overload error is
\* retried, and raised as RateLimitError or ModelOverloadedError only when it is the
\* third attempt that fails with it.  generate classifies an error by substrings of
\* its message and tests 'rate' first, so an invalid request whose message names
\* GenerateContentRequest is retried as if it were rate-limited.
C30_RetriesBounded ==
  /\ [] ( /\ Len(gen.outcomes) <= MAX_RETRIES
          /\ Len(gen.outcomes) = MAX_RETRIES => GenerateEnded
          /\ \A k \in 1 .. Len(gen.outcomes) :
               LET o == gen.outcomes[k]
               IN /\ o \in Responses \ { "text" } => RaisedAfter(k, "ContentFilteredError")
                  /\ ErrorKind(o) = "invalid-prompt" => RaisedAfter(k, "InvalidPromptError")
                  /\ ErrorKind(o) = "rate-limited" =>
                       IF k < MAX_RETRIES THEN ~RaisedAfter(k, gen.exc)
                       ELSE RaisedAfter(k, "RateLimitError")
                  /\ ErrorKind(o) = "overloaded" =>
                       IF k < MAX_RETRIES THEN ~RaisedAfter(k, gen.exc)
                       ELSE RaisedAfter(k, "ModelOverloadedError")
          /\ gen.exc \in { "RateLimitError", "ModelOverloadedError" } =>
               Len(gen.outcomes) = MAX_RETRIES )
  /\ (gen.pc = "calling") ~> GenerateEnded

\* The insights stage has been entered: its call was issued.
InsightsEntered == "insights" \in { run.stages[k] : k \in DOMAIN run.stages }

\* C31: the insights stage makes exactly one LLM call, over the first min(n, 75)
\* comments in ranked order, whatever the number n of comments; when that call raises
\* GeminiError the stage returns empty insights and the pipeline goes on with the next
\* stage: the summary call when the summary is enabled, the COMPLETED return otherwise.
C31_InsightsOneCall ==
  /\ [] ( /\ run.insights_calls = (IF InsightsEntered THEN 1 ELSE 0)
          /\ run.insights_result # None => InsightsEntered
          /\ InsightsEntered =>
               /\ Len(run.sample) = (IF run.n < 75 THEN run.n ELSE 75)
               /\ \A k \in DOMAIN run.sample : run.sample[k] = k )
  /\ [][ Running("insights") /\ run'.insights_log = "GeminiError" =>
           /\ run'.insights_result = Some([ source |-> "empty" ])
           /\ run'.thrown = NONE
           /\ IF run.include_summary /\ run.sentiment_result # None
                                     /\ run.classification_result # None
              THEN run'.pc = "summary" /\ run'.summary_calls = run.summary_calls + 1
              ELSE /\ run'.pc = "returned"
                   /\ run'.response[1].status = "completed"
                   /\ run'.response[1].insights = Some([ source |-> "empty" ]) ]_vars

\* The insights call of a video with more comments than the sample takes raised
\* GeminiError, and the run went on to its summary call.
C31_Witness ==
  /\ run.n > INSIGHTS_SAMPLE
  /\ run.insights_log = "GeminiError"
  /\ run.pc = "summary"
  /\ Len(run.sample) = INSIGHTS_SAMPLE

\* C37, as stated: in every reachable state of a job, status is "processing" exactly
\* when the step is not terminal, "completed" exactly when the step is COMPLETED (and
\* then error is null and progress is 100), "failed" exactly when the step is FAILED.
\* A run that goes on after a cancel request (C1) moves the step off FAILED while
\* status stays "failed" and error stays set, and ends COMPLETED with the error of the
\* cancel.
C37_StatusMatchesStep ==
  /\ job.status \in { "processing", "completed", "failed" }
  /\ job.status = "processing" <=> job.step \notin TerminalSteps
  /\ job.status = "completed" <=> job.step = COMPLETED
  /\ job.status = "failed" <=> job.step = FAILED
  /\ job.step = COMPLETED => job.error = NONE /\ job.progress = 100

\* C38, as stated: once cancel_active_analysis has returned for a running analysis,
\* the pipeline neither writes its result to the store nor increments the usage, and
\* no document is stored once the pipeline has finished.  run_analysis never looks at
\* the job's state (C8), so it stores the result of a cancelled analysis.
C38_NothingStoredAfterCancel ==
  /\ [][ cancel_mark # -1 => db'.usage = db.usage /\ (db'.stored => db.stored) ]_vars
  /\ [] (cancel_mark # -1 /\ PipelineReturned => ~db.stored)

\* C39: whenever run_analysis has returned and no cancel request came during the run,
\* the job is in the terminal state that matches the returned result: the result is
\* COMPLETED exactly when job.step is COMPLETED with progress 100, and FAILED exactly
\* when job.step is FAILED with an error recorded; also when the write to the store
\* failed.
C39_JobMatchesResult ==
  run.service = "run_analysis" /\ Returned /\ cancels = 0 =>
    LET result == run.response[1]
    IN /\ result.status \in { "completed", "failed" }
       /\ result.status = "completed" <=> (job.step = COMPLETED /\ job.progress = 100)
       /\ result.status = "failed" <=> (job.step = FAILED /\ job.error # NONE)

\* A run nobody cancelled returned COMPLETED although its write to the store failed.
C39_Witness ==
  /\ run.service = "run_analysis"
  /\ Returned
  /\ cancels = 0
  /\ run.response[1].status = "completed"
  /\ job.step = COMPLETED
  /\ ~db.stored

\* The locals of _analyze_sentiment before its loop, for n comments labelled `labels`.
SentimentLocals(n, labels) ==
  [ n |-> n, i |-> 0, labels |-> labels, all_results |-> << >>, summary |-> None ]

\* The loop of BackgroundAnalysisService._analyze_sentiment, the calls of the batches
\* ending as `log` says, one outcome per batch.
RECURSIVE RunSentimentLoop(_, _)
RunSentimentLoop(r, log) ==
  IF log = << >> THEN r
  ELSE RunSentimentLoop([ RunSentimentBatch(r, Head(log)) EXCEPT !.i = @ + BATCH_SIZE ],
                        Tail(log))

\* The loop of AnalysisService._analyze_sentiment.
RECURSIVE AnalyzeSentimentLoop(_, _)
AnalyzeSentimentLoop(r, log) ==
  IF log = << >> THEN r
  ELSE AnalyzeSentimentLoop([ AnalyzeSentimentBatch(r, Head(log)) EXCEPT !.i = @ + BATCH_SIZE ],
                            Tail(log))

\* What each _analyze_sentiment returns for the same comments and the same outcomes.
BackgroundSentiment(n, labels, log) ==
  RunSentimentResult(RunSentimentLoop(SentimentLocals(n, labels), log))

ServiceSentiment(n, labels, log) ==
  AnalyzeSentimentResult(AnalyzeSentimentLoop(SentimentLocals(n, labels), log))

\* C40, as stated: for the same comment list and the same outcome of each batch's
\* call (a payload or GeminiError), AnalysisService._analyze_sentiment and
\* BackgroundAnalysisService._analyze_sentiment return the same SentimentResult, item
\* list and summary.  Checked on the outcomes of every completed sentiment stage of
\* either coordinator, whose own result is the one computed here.  The two differ on
\* a payload with a summary and no per-item result (C24).
C40_SameSentimentResult ==
  run.sentiment_result # None =>
    LET background == BackgroundSentiment(run.n, run.labels, run.sentiment_log)
        service == ServiceSentiment(run.n, run.labels, run.sentiment_log)
    IN /\ Len(run.sentiment_log) = NumBatches(run.n)
       /\ run.sentiment_result[1] = (IF run.service = "run_analysis" THEN background
                                     ELSE service)
       /\ background.comments = service.comments
       /\ background.summary = service.summary

\* The call for the batch that holds comment id succeeded, by the log of a stage.
BatchSucceeded(log, id) ==
  LET b == ((id - 1) \div BATCH_SIZE) + 1
  IN b \in DOMAIN log /\ log[b] = "ok"

\* C32: a COMPLETED result's stored_comments has exactly one entry per fetched
\* comment, in the same order; each entry's sentiment (category) is the value the
\* sentiment (classification) stage returned for that comment id, and null when the
\* stage was disabled or returned nothing for that id, as when the comment's batch
\* failed.
C32_StoredCommentsJoin ==
  Returned /\ run.response[1].status = "completed" =>
    LET stored == run.response[1].stored_comments
    IN /\ Len(stored) = run.n
       /\ \A id \in 1 .. run.n :
            /\ stored[id].comment_id = id
            /\ stored[id].sentiment =
                 (IF run.include_sentiment /\ BatchSucceeded(run.sentiment_log, id)
                  THEN run.labels[((id - 1) % Len(run.labels)) + 1] ELSE NONE)
            /\ stored[id].category =
                 (IF run.include_classification /\ BatchSucceeded(run.classification_log, id)
                  THEN CATEGORIES[((id - 1) % 3) + 1] ELSE NONE)

\* A COMPLETED result of three batches: the first sentiment batch failed and the
\* second succeeded, so the first comment has a category and no sentiment, and the
\* comment after the first batch has a sentiment.
C32_Witness ==
  /\ Returned
  /\ run.response[1].status = "completed"
  /\ run.n > 2 * BATCH_SIZE
  /\ run.response[1].stored_comments[1].sentiment = NONE
  /\ run.response[1].stored_comments[1].category # NONE
  /\ run.response[1].stored_comments[BATCH_SIZE + 1].sentiment # NONE

\* The positions in the fetch order of the comments a selection returned.
Selected(f) == { f.comments[k].comment_id : k \in DOMAIN f.comments }

\* The plan's comment limit, written out.
PlanLimit(user_plan) ==
  CASE user_plan = "free" -> 100
    [] user_plan = "starter" -> 1000
    [] user_plan = "pro" -> 3000
    [] user_plan = "business" -> 10000
    [] OTHER -> 100

\* Comment a ranks before comment b: a higher score, or the same score and earlier in
\* the fetch order.
RanksBefore(a, b) ==
  \/ a.engagement_score > b.engagement_score
  \/ a.engagement_score = b.engagement_score /\ a.comment_id < b.comment_id

\* C33: fetch_comments returns the surviving comments sorted by engagement score
\* descending, comments of equal score staying in their fetch order, truncated to at
\* most min(request.max_comments, plan comment limit) entries: the returned list
\* holds comments of the fetch, each once, in ranking order; it leaves a comment out
\* only when the limit is reached, and then every comment left out ranks behind
\* every one returned.
C33_SortedStableTruncated ==
  fetch # None =>
    LET f == fetch[1]
        limit == IF f.max_comments < PlanLimit(f.user_plan) THEN f.max_comments
                 ELSE PlanLimit(f.user_plan)
    IN /\ Len(f.comments) = (IF Len(f.raw) < limit THEN Len(f.raw) ELSE limit)
       /\ \A k \in DOMAIN f.comments :
            /\ f.comments[k].comment_id \in DOMAIN f.raw
            /\ f.comments[k] = f.raw[f.comments[k].comment_id]
       /\ \A k \in 1 .. Len(f.comments) - 1 : RanksBefore(f.comments[k], f.comments[k + 1])
       /\ \A i \in DOMAIN f.raw \ Selected(f) :
            \A k \in DOMAIN f.comments : RanksBefore(f.comments[k], f.raw[i])

\* A fetch of more comments than the free plan allows, for a request that asks for
\* more still: comments of equal score were returned and one of that score was cut.
C33_Witness ==
  /\ fetch # None
  /\ Len(fetch[1].raw) > 100
  /\ fetch[1].max_comments > 100
  /\ Len(fetch[1].comments) = 100
  /\ \E k \in 1 .. Len(fetch[1].comments) - 1 :
       fetch[1].comments[k].engagement_score = fetch[1].comments[k + 1].engagement_score
  /\ \E i \in DOMAIN fetch[1].raw \ Selected(fetch[1]) :
       fetch[1].raw[i].engagement_score = fetch[1].comments[100].engagement_score

\* The first 50 characters of a topic, lower-cased.
Key50(topic) ==
  << >> \o [ k \in 1 .. (IF Len(topic) < 50 THEN Len(topic) ELSE 50) |->
             IF topic[k] \in { "A", "B", "C" } THEN LowerChar(topic[k]) ELSE topic[k] ]

\* C36: _extract_content_requests merges the requests whose normalized topics share
\* the same 50-character lower-cased key into one entry whose demand is the number
\* of mentions of that topic, labels it high if demand >= 5, medium if demand >= 3,
\* else low, and returns at most 10 entries sorted by demand descending: no two
\* entries share a key, and a topic is missing only when ten entries of at least
\* its demand are returned.
C36_RequestsMerged ==
  ask # None /\ ask[1].op = "_extract_content_requests" =>
    LET matches == ask[1].input
        result == ask[1].result
        topics == << >> \o [ m \in DOMAIN matches |-> Topic(matches[m]) ]
        counted == { m \in DOMAIN matches : Len(topics[m]) >= 5 /\ Len(topics[m]) <= 100 }
        mentioned == << >> \o [ m \in DOMAIN matches |-> Key50(topics[m]) ]
        returned == << >> \o [ k \in DOMAIN result |-> Key50(result[k].topic) ]
        mentions == << >> \o [ m \in DOMAIN matches |->
                               Cardinality({ j \in counted : mentioned[j] = mentioned[m] }) ]
    IN /\ Len(result) <= 10
       /\ \A k \in DOMAIN result :
            /\ result[k].demand = Cardinality({ m \in counted : mentioned[m] = returned[k] })
            /\ result[k].demand >= 1
            /\ result[k].priority = (IF result[k].demand >= 5 THEN "high"
                                     ELSE IF result[k].demand >= 3 THEN "medium" ELSE "low")
       /\ \A k \in DOMAIN result, l \in DOMAIN result :
            /\ k < l => result[k].demand >= result[l].demand
            /\ k # l => returned[k] # returned[l]
       /\ \A m \in counted :
            \/ \E k \in DOMAIN result : returned[k] = mentioned[m]
            \/ /\ Len(result) = 10
               /\ \A k \in DOMAIN result : result[k].demand >= mentions[m]

\* Two topics that differ only behind their 50th character were merged into one entry
\* of demand 2, among more topics than are returned.
C36_Witness ==
  /\ ask # None
  /\ ask[1].op = "_extract_content_requests"
  /\ Len(ask[1].result) = 10
  /\ ask[1].input[1] # ask[1].input[2]
  /\ Len(ask[1].input[1]) = 51
  /\ Len(ask[1].input[2]) = 51
  /\ \E k \in DOMAIN ask[1].result :
       /\ ask[1].result[k].demand = 2
       /\ Len(ask[1].result[k].topic) = 51
  /\ \E k \in DOMAIN ask[1].result : ask[1].result[k].priority = "high"

\* The top-3 keywords of a comment, as a set.
Top3KeywordSet(c) ==
  LET keywords == Keywords(c.text.words)
  IN { keywords[k] : k \in 1 .. Min(Len(keywords), 3) }

\* What a call returns for its groups: those of at least 2 questions, the largest
\* ten of them, sorted by count descending, each with its label.
ReturnsLargestGroups(groups, result) ==
  LET large == { p \in DOMAIN groups : Cardinality(groups[p].members) >= 2 }
  IN /\ Len(result) = Min(Cardinality(large), 10)
     /\ \A k \in DOMAIN result :
          /\ \E p \in large : result[k].count = Cardinality(groups[p].members)
          /\ result[k].demand_level = (IF result[k].count >= 10 THEN "high"
                                       ELSE IF result[k].count >= 5 THEN "medium" ELSE "low")
          /\ \A l \in DOMAIN result : k < l => result[k].count >= result[l].count
     /\ \A c \in { result[k].count : k \in DOMAIN result } :
          Cardinality({ k \in DOMAIN result : result[k].count >= c })
            = Min(Cardinality({ p \in large : Cardinality(groups[p].members) >= c }), 10)

\* C34: _group_similar_questions counts only comments flagged as questions, puts two
\* comments in the same group exactly when their top-3 keywords are equal as a set,
\* and returns only groups with count at least 2, at most 10 of them, sorted by count
\* descending, each labelled high if count >= 10, medium if 5 <= count < 10, else low.
C34_QuestionsGrouped ==
  ask # None /\ ask[1].op = "_group_similar_questions" =>
    LET comments == ask[1].input
        groups == ask[1].groups
        sets == << >> \o [ i \in DOMAIN comments |-> Top3KeywordSet(comments[i]) ]
        group == << >> \o [ i \in DOMAIN comments |->
                            { p \in DOMAIN groups : i \in groups[p].members } ]
    IN /\ \A i \in DOMAIN comments : group[i] # {} <=> comments[i].is_question
       /\ \A i \in DOMAIN comments, j \in DOMAIN comments :
            comments[i].is_question /\ comments[j].is_question =>
              (group[i] = group[j] <=> sets[i] = sets[j])
       /\ ReturnsLargestGroups(groups, ask[1].result)

\* The comments of an author, and the score the formula gives the author when a
\* comment is a question as `question` says; the score reported is an integer.
CommentsOf(comments, author) == { i \in DOMAIN comments : comments[i].author = author }

FormulaScore(comments, author, question(_)) ==
  LET own == CommentsOf(comments, author)
      words == SumAt([ i \in DOMAIN comments |-> comments[i].words ], own)
      likes == SumAt([ i \in DOMAIN comments |-> comments[i].like_count ], own)
      anyQuestion == \E i \in own : question(comments[i])
      anyFeedback == \E i \in own : comments[i].is_feedback
                                      \/ comments[i].category \in { "feedback", "suggestion" }
  IN (Cardinality(own) * 100 + (IF words < 500 THEN words ELSE 500) + likes * 20
        + (IF anyQuestion THEN 200 ELSE 0) + (IF anyFeedback THEN 200 ELSE 0)) \div 10

SuperfansRanked(comments, result, question(_)) ==
  LET eligible == { comments[i].author : i \in DOMAIN comments } \ { "Unknown", "Viewer" }
      twice == { a \in eligible : Cardinality(CommentsOf(comments, a)) >= 2 }
  IN /\ Len(result) = Min(Cardinality(twice), 10)
     /\ \A k \in DOMAIN result :
          /\ result[k].author \in twice
          /\ result[k].engagement_score = FormulaScore(comments, result[k].author, question)
          /\ \A l \in DOMAIN result :
               /\ k < l => result[k].engagement_score >= result[l].engagement_score
               /\ k # l => result[k].author # result[l].author

FlaggedQuestion(c) == c.is_question

\* C35: _identify_superfans returns only non-placeholder authors with at least 2
\* comments, at most 10 of them, sorted by score descending, where an author's score
\* is commentCount*10 + min(totalWords,500)/10 + totalLikes*2 + 20 if any of the
\* author's comments is a question + 20 if any is feedback.
C35_SuperfansRanked ==
  ask # None /\ ask[1].op = "_identify_superfans" =>
    SuperfansRanked(ask[1].input, ask[1].result, FlaggedQuestion)

====
